---- MODULE Spec2Model ----
(***************************************************************************)
(* A model of kubetracer-go: the tracing interceptor over the object store *)
(* (pkg/client/tracing_client.go), the change-filter predicate             *)
(* (pkg/predicates/ignore_trace_annotation_update.go) and the composite    *)
(* key codec shared by the interceptor and the owner-event mapper.         *)
(*                                                                         *)
(* Strings are sequences of atoms.  The atom ";" is the separator          *)
(* character; every other atom stands for a run of non-separator           *)
(* characters (an identifier, a name, a kind).                             *)
(***************************************************************************)
EXTENDS Integers, Sequences, FiniteSets, TLC

VARIABLES
    store,      \* the object store: key -> stored object or NotFound
    nextId,     \* the tracer's id generator: the next unused id number
    ctx,        \* per worker: the span context carried by its ambient context
    obj,        \* per worker: the in-memory object it holds, or NoObj
    pc,         \* per worker: where it is ("run", or inside EndTrace)
    loc,        \* per worker: EndTrace's locals between its store calls
    last,       \* per worker: what its last interceptor call did and returned
    codec,      \* the codec's inputs and outputs (SpecCodec)
    ev,         \* the event at the watch boundary and what was decided on it
    queue,      \* the work queue: the requests waiting for a reconcile
    cache       \* the watch's cache: the object as the last event showed it

vars == <<store, nextId, ctx, obj, pc, loc, last, codec, ev, queue, cache>>

sysVars == <<store, nextId, ctx, obj, pc, loc, last>>

watchVars == <<queue, cache>>

----------------------------------------------------------------------------
(* Bounds *)

\* ids the tracer may generate in one behaviour
MaxIds == 4

\* longest string, in atoms, the codec is fed per field
MaxFieldLen == 1

\* longest list of status conditions the condition helpers are fed
MaxConds == 3

----------------------------------------------------------------------------
(* Strings *)

SEP == ";"

EmptyStr == <<>>

\* strings.Split(s, ";"): the fields between separators, at least one
RECURSIVE SplitFrom(_, _, _)
SplitFrom(s, i, cur) ==
    IF i > Len(s) THEN <<cur>>
    ELSE IF s[i] = SEP THEN <<cur>> \o SplitFrom(s, i + 1, EmptyStr)
    ELSE SplitFrom(s, i + 1, Append(cur, s[i]))

Split(s) == SplitFrom(s, 1, EmptyStr)

\* fmt.Sprintf("%s;%s;%s;%s;%s", a, b, c, d, e)
Sprintf5(a, b, c, d, e) ==
    a \o <<SEP>> \o b \o <<SEP>> \o c \o <<SEP>> \o d \o <<SEP>> \o e

----------------------------------------------------------------------------
(* Constants of the program *)

TraceIDAnnotation == "kubetracer.io/trace-id"
SpanIDAnnotation == "kubetracer.io/span-id"

\* the namespace and the name under which the modelled object lives
DefaultNamespace == <<"default">>
PodName == <<"pod-a">>

----------------------------------------------------------------------------
(* The tracer (OpenTelemetry SDK), as the interceptor uses it *)

\* the all-zero ids of an invalid span context
ZeroTrace == "t0"
ZeroSpan == "s0"

\* the n-th id the generator hands out
TraceAtom(n) == "t" \o ToString(n)
SpanAtom(n) == "s" \o ToString(n)

\* ids minted by another process and handed over in a composite key
KeyTrace == "tk"
KeySpan == "sk"

NoSpan == [trace |-> ZeroTrace, span |-> ZeroSpan]

\* SpanContext.IsValid: both ids non-zero
IsValid(sc) == sc.trace # ZeroTrace /\ sc.span # ZeroSpan

\* TraceID.String / SpanID.String: the hex rendering, never empty
IDString(id) == <<id>>

ValidTraceAtoms == {TraceAtom(n) : n \in 1..MaxIds} \cup {KeyTrace}
ValidSpanAtoms == {SpanAtom(n) : n \in 1..MaxIds} \cup {KeySpan}

\* trace.TraceIDFromHex / trace.SpanIDFromHex succeed on a well-formed non-zero id
TraceHexOk(s) == Len(s) = 1 /\ s[1] \in ValidTraceAtoms
SpanHexOk(s) == Len(s) = 1 /\ s[1] \in ValidSpanAtoms

\* tracer.Start: a child of the parent's trace when the parent carries a trace
\* id, a fresh root otherwise; the span id is always new
TracerStart(parent, n) ==
    IF parent.trace # ZeroTrace
    THEN [trace |-> parent.trace, span |-> SpanAtom(n)]
    ELSE [trace |-> TraceAtom(n), span |-> SpanAtom(n)]

----------------------------------------------------------------------------
(* Objects *)

NotFound == [exists |-> FALSE]
NoObj == NotFound

EmptyAnn == [k \in {} |-> EmptyStr]

Key(ns, name) == [Namespace |-> ns, Name |-> name]

PodKey == Key(DefaultNamespace, PodName)

\* the kinds registered in the interceptor's scheme (the Pod the callers work
\* on and the owner type of the owner handler), and the kinds of the objects
\* its callers hand it
Scheme == {"Pod", "ConfigMap"}
Kinds == {"Pod", "Widget"}

\* a typed object as its caller builds it: no annotations, no conditions
NewObject(key) ==
    [exists |-> TRUE, kind |-> "Pod", key |-> key, ann |-> EmptyAnn,
     conds |-> <<>>, rv |-> 0]

OfKind(kind, o) == [o EXCEPT !.kind = kind]

\* apiutil.GVKForObject(obj, scheme) returned no error
GVKForObject(o) == o.kind \in Scheme

\* the zero object handed to a read, before the read fills it
BlankObject == NewObject(Key(EmptyStr, EmptyStr))

HasAnn(o, k) == k \in DOMAIN o.ann

\* annotations[k] on a Go map: the empty string when the key is absent
AnnValue(o, k) == IF HasAnn(o, k) THEN o.ann[k] ELSE EmptyStr

SetAnn(a, k, v) == [x \in DOMAIN a \cup {k} |-> IF x = k THEN v ELSE a[x]]

DelAnn(a, k) == [x \in DOMAIN a \ {k} |-> a[x]]

----------------------------------------------------------------------------
(* Status conditions of an object (getConditions and its users) *)

\* a condition entry: its type, status and message, and under other the
\* fields of the object's own condition type that metav1.Condition lacks or
\* the conversion does not copy (0 is their zero value).  Condition(t, m) is
\* the entry setConditionMessage appends
Condition(t, m) == [type |-> t, status |-> "Unknown", msg |-> m, other |-> 0]

\* convertToMetaV1Conditions followed by convertFromMetaV1: Type, Status,
\* Reason, Message and LastTransitionTime are copied, every other field of
\* the entry is left at its zero value
convertToMetaV1Conditions(conds) ==
    [i \in 1..Len(conds) |-> [conds[i] EXCEPT !.other = 0]]

CondIdx(o, t) == {i \in 1..Len(o.conds) : o.conds[i].type = t}

\* getConditionMessage returns no error: getConditions resolved the kind and
\* a condition of the type is there
HasCondition(o, t) == GVKForObject(o) /\ CondIdx(o, t) # {}

FirstIdx(S) == CHOOSE i \in S : \A j \in S : i <= j

\* getConditionMessage: the message of the first condition of the type;
\* callers test HasCondition for its "not found" error
getConditionMessage(t, o) == o.conds[FirstIdx(CondIdx(o, t))].msg

\* setConditionMessage: replace the first match's message, else append;
\* nothing is done when getConditions fails
setConditionMessage(t, m, o) ==
    IF ~GVKForObject(o) THEN o
    ELSE LET conditions == convertToMetaV1Conditions(o.conds)
         IN IF HasCondition(o, t)
            THEN [o EXCEPT !.conds =
                     [conditions EXCEPT ![FirstIdx(CondIdx(o, t))].msg = m]]
            ELSE [o EXCEPT !.conds = Append(conditions, Condition(t, m))]

\* deleteCondition's loop over the backing array arr of n conditions: at each
\* index whose entry is NOT of the type, the tail is shifted left over it in
\* place and the result becomes the first n-1 cells of the array
RECURSIVE DeleteLoop(_, _, _, _)
DeleteLoop(arr, i, t, hit) ==
    IF i > Len(arr)
    THEN IF hit THEN SubSeq(arr, 1, Len(arr) - 1) ELSE <<>>
    ELSE IF arr[i].type # t
         THEN DeleteLoop([j \in 1..Len(arr) |->
                             IF j >= i /\ j < Len(arr) THEN arr[j + 1] ELSE arr[j]],
                         i + 1, t, TRUE)
         ELSE DeleteLoop(arr, i + 1, t, hit)

deleteCondition(t, o) ==
    IF ~GVKForObject(o) THEN o
    ELSE [o EXCEPT !.conds =
             DeleteLoop(convertToMetaV1Conditions(o.conds), 1, t, FALSE)]

----------------------------------------------------------------------------
(* The composite key codec *)

\* getNameFromNamespacedName taking the field before the last
getNameFromNamespacedNameOffByOne(key) ==
    LET parts == Split(key.Name)
    IN IF Len(parts) # 5 THEN key.Name ELSE parts[4]

\* getNameFromNamespacedName
getNameFromNamespacedName(key) ==
    LET parts == Split(key.Name)
    IN IF Len(parts) # 5 THEN key.Name ELSE parts[5]

\* getCallerKindFromNamespacedName reading any name of five fields or more
getCallerKindFromNamespacedNameAtLeastFive(key) ==
    LET parts == Split(key.Name)
    IN IF Len(parts) < 5 THEN EmptyStr ELSE parts[3]

\* getCallerKindFromNamespacedName
getCallerKindFromNamespacedName(key) ==
    LET parts == Split(key.Name)
    IN IF Len(parts) # 5 THEN EmptyStr ELSE parts[3]

\* getCallerNameFromNamespacedName
getCallerNameFromNamespacedName(key) ==
    LET parts == Split(key.Name)
    IN IF Len(parts) # 5 THEN EmptyStr ELSE parts[4]

\* overrideTraceIDFromNamespacedName keeping the markers the object already has
overrideTraceIDFromNamespacedNameIfAbsent(key, o) ==
    LET parts == Split(key.Name)
    IN IF Len(parts) # 5 \/ HasAnn(o, TraceIDAnnotation) THEN o
       ELSE [o EXCEPT !.ann = SetAnn(SetAnn(@, TraceIDAnnotation, parts[1]),
                                     SpanIDAnnotation, parts[2])]

\* overrideTraceIDFromNamespacedName
overrideTraceIDFromNamespacedName(key, o) ==
    LET parts == Split(key.Name)
    IN IF Len(parts) # 5 THEN o
       ELSE [o EXCEPT !.ann = SetAnn(SetAnn(@, TraceIDAnnotation, parts[1]),
                                     SpanIDAnnotation, parts[2])]

----------------------------------------------------------------------------
(* Span lifecycle *)

\* the parent span context startSpanFromContext leaves in the context it
\* hands to tracer.Start; o = NoObj is the nil object of StartSpan
ParentFromObject(c, o) ==
    IF HasCondition(o, "TraceID")
    THEN LET t == getConditionMessage("TraceID", o)
         IN IF TraceHexOk(t)
            THEN IF HasCondition(o, "SpanID")
                 THEN LET s == getConditionMessage("SpanID", o)
                      IN IF SpanHexOk(s)
                         THEN [trace |-> t[1], span |-> s[1]]
                         ELSE [trace |-> t[1], span |-> ZeroSpan]
                 ELSE NoSpan
            ELSE c
    ELSE IF HasAnn(o, TraceIDAnnotation)
         THEN LET t == o.ann[TraceIDAnnotation]
              IN IF TraceHexOk(t)
                 THEN IF HasAnn(o, SpanIDAnnotation)
                      THEN LET s == o.ann[SpanIDAnnotation]
                           IN IF SpanHexOk(s)
                              THEN [trace |-> t[1], span |-> s[1]]
                              ELSE [trace |-> t[1], span |-> ZeroSpan]
                      ELSE NoSpan
                 ELSE c
         ELSE c

\* startSpanFromContext: the span context of the span it starts
startSpanFromContext(c, o, n) ==
    IF IsValid(c)
    THEN TracerStart([trace |-> c.trace, span |-> c.span], n)
    ELSE IF o.exists
         THEN TracerStart(ParentFromObject(c, o), n)
         ELSE TracerStart(c, n)

\* addTraceIDAnnotation stamping the trace id only
addTraceIDAnnotationTraceOnly(sc, o) ==
    [o EXCEPT !.ann = SetAnn(@, TraceIDAnnotation, IDString(sc.trace))]

\* addTraceIDAnnotation: stamp the ids of the context's span
addTraceIDAnnotation(sc, o) ==
    [o EXCEPT !.ann = SetAnn(SetAnn(@, TraceIDAnnotation, IDString(sc.trace)),
                             SpanIDAnnotation, IDString(sc.span))]

----------------------------------------------------------------------------
(* The object store behind the interceptor (the wrapped client.Client) *)

Keys == {PodKey}

Stored(st, key) == IF key \in DOMAIN st THEN st[key] ELSE NotFound

\* the stored object of o's kind under o's key
StoredAs(st, o) ==
    LET s == Stored(st, o.key)
    IN IF s.exists /\ s.kind = o.kind THEN s ELSE NotFound

\* the resource version moves only when a write changes the stored object
Bump(old, new) == IF new = old THEN old ELSE [new EXCEPT !.rv = old.rv + 1]

\* Reader.Get(ctx, key, obj): fills obj on success, leaves it alone on error
StoreGet(st, key, o) ==
    IF StoredAs(st, [o EXCEPT !.key = key]).exists
    THEN [err |-> "none", obj |-> st[key], st |-> st]
    ELSE [err |-> "NotFound", obj |-> o, st |-> st]

\* Client.Create: the status is not taken from the request
StoreCreate(st, o) ==
    IF Stored(st, o.key).exists \/ o.key \notin DOMAIN st
    THEN [err |-> "AlreadyExists", obj |-> o, st |-> st]
    ELSE LET new == [o EXCEPT !.rv = 1, !.conds = <<>>]
         IN [err |-> "none", obj |-> new, st |-> [st EXCEPT ![o.key] = new]]

\* Client.Update: replaces the metadata under the resource-version check and
\* leaves the status alone
StoreUpdate(st, o) ==
    LET old == StoredAs(st, o)
    IN IF ~old.exists THEN [err |-> "NotFound", obj |-> o, st |-> st]
       ELSE IF old.rv # o.rv THEN [err |-> "Conflict", obj |-> o, st |-> st]
       ELSE LET new == Bump(old, [old EXCEPT !.ann = o.ann])
            IN [err |-> "none", obj |-> new, st |-> [st EXCEPT ![o.key] = new]]

\* the annotations after a JSON merge patch computed from base to o is applied
\* to the stored annotations: keys whose value differs from the base are set,
\* keys missing from o are removed, an emptied map removes the whole map
PatchedAnn(cur, base, new) ==
    IF DOMAIN new = {} /\ DOMAIN base # {} THEN EmptyAnn
    ELSE LET set == {k \in DOMAIN new : k \notin DOMAIN base \/ base[k] # new[k]}
             del == DOMAIN base \ DOMAIN new
         IN [k \in ((DOMAIN cur \ del) \cup set) |->
                IF k \in set THEN new[k] ELSE cur[k]]

\* Client.Patch with client.MergeFrom(base): no resource-version check, the
\* status part of the patch is ignored
StorePatch(st, base, o) ==
    LET old == StoredAs(st, o)
    IN IF ~old.exists THEN [err |-> "NotFound", obj |-> o, st |-> st]
       ELSE LET new == Bump(old, [old EXCEPT !.ann = PatchedAnn(@, base.ann, o.ann)])
            IN [err |-> "none", obj |-> new, st |-> [st EXCEPT ![o.key] = new]]

\* Status().Update: replaces the status under the resource-version check
StoreStatusUpdate(st, o) ==
    LET old == StoredAs(st, o)
    IN IF ~old.exists THEN [err |-> "NotFound", obj |-> o, st |-> st]
       ELSE IF old.rv # o.rv THEN [err |-> "Conflict", obj |-> o, st |-> st]
       ELSE LET new == Bump(old, [old EXCEPT !.conds = o.conds])
            IN [err |-> "none", obj |-> new, st |-> [st EXCEPT ![o.key] = new]]

\* Status().Patch with client.MergeFrom(base): a changed condition list
\* replaces the stored one, the metadata part of the patch is ignored
StoreStatusPatch(st, base, o) ==
    LET old == StoredAs(st, o)
    IN IF ~old.exists THEN [err |-> "NotFound", obj |-> o, st |-> st]
       ELSE LET new == Bump(old, [old EXCEPT !.conds =
                                     IF base.conds = o.conds THEN @ ELSE o.conds])
            IN [err |-> "none", obj |-> new, st |-> [st EXCEPT ![o.key] = new]]

\* Client.Delete: removes the stored object
StoreDelete(st, o) ==
    LET old == StoredAs(st, o)
    IN IF ~old.exists THEN [err |-> "NotFound", obj |-> o, st |-> st]
       ELSE [err |-> "none", obj |-> o, st |-> [st EXCEPT ![o.key] = NotFound]]

\* Client.DeleteAllOf: removes every stored object of o's kind
StoreDeleteAllOf(st, o) ==
    [err |-> "none", obj |-> o,
     st |-> [k \in DOMAIN st |->
                IF st[k].exists /\ st[k].kind = o.kind THEN NotFound ELSE st[k]]]

\* Client.List: the stored objects of the kind
StoreList(st, kind) ==
    [err |-> "none", st |-> st,
     items |-> {st[k] : k \in {x \in DOMAIN st : st[x].exists /\ st[x].kind = kind}}]

\* Status().Create: the status sub-resource cannot be created
StoreStatusCreate(st, o) ==
    [err |-> IF StoredAs(st, o).exists THEN "MethodNotSupported" ELSE "NotFound",
     obj |-> o, st |-> st]

----------------------------------------------------------------------------
(* The workers that call the interceptor *)

Workers == {"w1", "w2"}

\* a key as the owner-event mapper hands it to a reconciler: the ids of the
\* causing span, the owner's kind and name, and the real name
CompositeKey ==
    Key(DefaultNamespace,
        Sprintf5(<<KeyTrace>>, <<KeySpan>>, <<"ConfigMap">>, <<"owner">>, PodName))

RequestKeys == {PodKey, CompositeKey}

NoKey == Key(EmptyStr, EmptyStr)

\* the record of a worker's latest interceptor call: the operation, the error
\* it returned, the span it started, the object it handed to the store (NoObj
\* when it made no write), the key it read under (NoKey when it read nothing)
\* the key it was called with (NoKey when it takes none) and the kind of the
\* object or list it was called with
\* open tells whether the span was still open when the call returned: every
\* verb ends its span on return (defer span.End()) unless its record says
\* otherwise
Call(op, err, span, sent, read, arg, kind) ==
    [op |-> op, err |-> err, span |-> span, sent |-> sent, read |-> read,
     arg |-> arg, kind |-> kind, open |-> FALSE]

NoCall == Call("none", "none", NoSpan, NoObj, NoKey, NoKey, "none")

NoLoc ==
    [span |-> NoSpan, original |-> NoObj, current |-> NoObj, statusOriginal |-> NoObj,
     readErr |-> "none", patchErr |-> "none"]

CanStart(w) == pc[w] = "run" /\ nextId <= MaxIds

\* Return reporting success whatever the store answered
ReturnMasked(w, op, sc, sent, read, arg, r) ==
    /\ store' = r.st
    /\ obj' = [obj EXCEPT ![w] = r.obj]
    /\ last' = [last EXCEPT ![w] = Call(op, "none", sc, sent, read, arg, r.obj.kind)]
    /\ nextId' = nextId + 1

\* the call returned without ending its span: the span goes to the caller
ReturnOpen(w, op, sc, sent, read, arg, r) ==
    /\ store' = r.st
    /\ obj' = [obj EXCEPT ![w] = r.obj]
    /\ last' = [last EXCEPT ![w] =
                    [Call(op, r.err, sc, sent, read, arg, r.obj.kind)
                        EXCEPT !.open = TRUE]]
    /\ nextId' = nextId + 1

\* Return without the deferred span.End()
ReturnUnended(w, op, sc, sent, read, arg, r) ==
    ReturnOpen(w, op, sc, sent, read, arg, r)

\* the interceptor call "result" of worker w returned: r is the store's
\* answer, the in-memory object is what the store call left in it; the span
\* was ended on the way out (defer span.End())
Return(w, op, sc, sent, read, arg, r) ==
    /\ store' = r.st
    /\ obj' = [obj EXCEPT ![w] = r.obj]
    /\ last' = [last EXCEPT ![w] = Call(op, r.err, sc, sent, read, arg, r.obj.kind)]
    /\ nextId' = nextId + 1

\* a verb returns "problem getting the scheme": no span, no store call; o is
\* the object the caller is left with
Refuse(w, op, o, arg) ==
    /\ last' = [last EXCEPT ![w] = Call(op, "SchemeError", NoSpan, NoObj, NoKey, arg, o.kind)]
    /\ obj' = [obj EXCEPT ![w] = o]
    /\ UNCHANGED <<store, nextId>>

\* the error of apiutil.GVKForObject as a verb returns it
SchemeErr(o) == IF GVKForObject(o) THEN "none" ELSE "SchemeError"

\* tracingClient.StartTrace on a fresh object of the kind
StartTrace(w, key, kind) ==
    /\ CanStart(w)
    /\ LET name == getNameFromNamespacedName(key)
           initialKey == Key(key.Namespace, name)
           r == StoreGet(store, initialKey, OfKind(kind, BlankObject))
           o == overrideTraceIDFromNamespacedName(key, r.obj)
           sc == startSpanFromContext(ctx[w], o, nextId)
       IN /\ ReturnOpen(w, "StartTrace", sc, NoObj, initialKey, key,
                        [r EXCEPT !.obj = o, !.err = SchemeErr(o)])
          /\ ctx' = [ctx EXCEPT ![w] = sc]
    /\ UNCHANGED <<pc, loc, codec, ev, watchVars>>

\* tracingClient.StartSpan: a span from the context alone, handed to the
\* caller with the context that carries it
StartSpan(w) ==
    /\ CanStart(w)
    /\ LET sc == startSpanFromContext(ctx[w], NoObj, nextId)
       IN /\ last' = [last EXCEPT ![w] =
                          [Call("StartSpan", "none", sc, NoObj, NoKey, NoKey, "none")
                              EXCEPT !.open = TRUE]]
          /\ ctx' = [ctx EXCEPT ![w] = sc]
          /\ nextId' = nextId + 1
    /\ UNCHANGED <<store, obj, pc, loc, codec, ev, watchVars>>

\* tracingClient.Create of a new object of the kind
Create(w, kind) ==
    /\ CanStart(w)
    /\ LET o == OfKind(kind, NewObject(PodKey))
           sc == startSpanFromContext(ctx[w], o, nextId)
           stamped == addTraceIDAnnotation(sc, o)
       IN IF ~GVKForObject(o) THEN Refuse(w, "Create", o, NoKey)
          ELSE Return(w, "Create", sc, stamped, NoKey, NoKey, StoreCreate(store, stamped))
    /\ UNCHANGED <<ctx, pc, loc, codec, ev, watchVars>>

\* tracingClient.Get into a fresh object of the kind
Get(w, kind) ==
    /\ CanStart(w)
    /\ LET o == OfKind(kind, BlankObject)
           sc == startSpanFromContext(ctx[w], o, nextId)
       IN IF ~GVKForObject(o) THEN Refuse(w, "Get", o, PodKey)
          ELSE Return(w, "Get", sc, NoObj, PodKey, PodKey, StoreGet(store, PodKey, o))
    /\ UNCHANGED <<ctx, pc, loc, codec, ev, watchVars>>

\* tracingClient.Get into the object the worker already holds, as a reconciler
\* does to refresh it
GetInto(w) ==
    /\ CanStart(w)
    /\ obj[w].exists
    /\ LET sc == startSpanFromContext(ctx[w], obj[w], nextId)
       IN IF ~GVKForObject(obj[w]) THEN Refuse(w, "Get", obj[w], PodKey)
          ELSE Return(w, "Get", sc, NoObj, PodKey, PodKey,
                      StoreGet(store, PodKey, obj[w]))
    /\ UNCHANGED <<ctx, pc, loc, codec, ev, watchVars>>

\* the key a List reads under: every name of the namespace
ListKey == Key(DefaultNamespace, EmptyStr)

\* tracingClient.List of the objects of the kind: the kind's resolution error
\* is dropped, the span comes from the context alone (startSpanFromContextList)
List(w, kind) ==
    /\ CanStart(w)
    /\ LET sc == TracerStart(ctx[w], nextId)
           r == StoreList(store, kind)
       IN /\ last' = [last EXCEPT ![w] = Call("List", r.err, sc, NoObj, ListKey, NoKey, kind)]
          /\ nextId' = nextId + 1
    /\ UNCHANGED <<store, obj, ctx, pc, loc, codec, ev, watchVars>>

\* tracingClient.Update of the object the worker holds
Update(w) ==
    /\ CanStart(w)
    /\ obj[w].exists
    /\ LET sc == startSpanFromContext(ctx[w], obj[w], nextId)
           stamped == addTraceIDAnnotation(sc, obj[w])
       IN IF ~GVKForObject(obj[w]) THEN Refuse(w, "Update", obj[w], NoKey)
          ELSE Return(w, "Update", sc, stamped, NoKey, NoKey, StoreUpdate(store, stamped))
    /\ UNCHANGED <<ctx, pc, loc, codec, ev, watchVars>>

\* tracingClient.Patch of the object the worker holds, with the merge patch
\* client.MergeFrom(obj.DeepCopy()) taken from it before the call
Patch(w) ==
    /\ CanStart(w)
    /\ obj[w].exists
    /\ LET base == obj[w]
           sc == startSpanFromContext(ctx[w], obj[w], nextId)
           stamped == addTraceIDAnnotation(sc, obj[w])
       IN IF ~GVKForObject(obj[w]) THEN Refuse(w, "Patch", obj[w], NoKey)
          ELSE Return(w, "Patch", sc, stamped, NoKey, NoKey,
                      StorePatch(store, base, stamped))
    /\ UNCHANGED <<ctx, pc, loc, codec, ev, watchVars>>

\* Delete that stamps the object with the ids of its span before the store call
DeleteStamping(w) ==
    /\ CanStart(w)
    /\ obj[w].exists
    /\ LET sc == startSpanFromContext(ctx[w], obj[w], nextId)
           stamped == addTraceIDAnnotation(sc, obj[w])
       IN IF ~GVKForObject(obj[w]) THEN Refuse(w, "Delete", obj[w], NoKey)
          ELSE Return(w, "Delete", sc, stamped, NoKey, NoKey, StoreDelete(store, stamped))
    /\ UNCHANGED <<ctx, pc, loc, codec, ev, watchVars>>

\* tracingClient.Delete of the object the worker holds
Delete(w) ==
    /\ CanStart(w)
    /\ obj[w].exists
    /\ LET sc == startSpanFromContext(ctx[w], obj[w], nextId)
       IN IF ~GVKForObject(obj[w]) THEN Refuse(w, "Delete", obj[w], NoKey)
          ELSE Return(w, "Delete", sc, obj[w], NoKey, NoKey, StoreDelete(store, obj[w]))
    /\ UNCHANGED <<ctx, pc, loc, codec, ev, watchVars>>

\* tracingClient.DeleteAllOf of the kind of the object the worker holds
DeleteAllOf(w) ==
    /\ CanStart(w)
    /\ obj[w].exists
    /\ LET sc == startSpanFromContext(ctx[w], obj[w], nextId)
       IN IF ~GVKForObject(obj[w]) THEN Refuse(w, "DeleteAllOf", obj[w], NoKey)
          ELSE Return(w, "DeleteAllOf", sc, obj[w], NoKey, NoKey,
                      StoreDeleteAllOf(store, obj[w]))
    /\ UNCHANGED <<ctx, pc, loc, codec, ev, watchVars>>

\* StampConditions stamping the annotations as well
StampConditionsAndAnnotations(sc, o) ==
    addTraceIDAnnotation(sc,
        setConditionMessage("SpanID", IDString(sc.span),
            setConditionMessage("TraceID", IDString(sc.trace), o)))

\* the object tracingStatusClient hands to the status writer
StampConditions(sc, o) ==
    setConditionMessage("SpanID", IDString(sc.span),
        setConditionMessage("TraceID", IDString(sc.trace), o))

\* tracingStatusClient.Update of the object the worker holds
StatusUpdate(w) ==
    /\ CanStart(w)
    /\ obj[w].exists
    /\ LET sc == startSpanFromContext(ctx[w], obj[w], nextId)
           stamped == StampConditions(sc, obj[w])
       IN IF ~GVKForObject(obj[w]) THEN Refuse(w, "StatusUpdate", obj[w], NoKey)
          ELSE Return(w, "StatusUpdate", sc, stamped, NoKey, NoKey,
                      StoreStatusUpdate(store, stamped))
    /\ UNCHANGED <<ctx, pc, loc, codec, ev, watchVars>>

\* tracingStatusClient.Patch of the object the worker holds, with the merge
\* patch client.MergeFrom(obj.DeepCopy()) taken from it before the call
StatusPatch(w) ==
    /\ CanStart(w)
    /\ obj[w].exists
    /\ LET base == obj[w]
           sc == startSpanFromContext(ctx[w], obj[w], nextId)
           stamped == StampConditions(sc, obj[w])
       IN IF ~GVKForObject(obj[w]) THEN Refuse(w, "StatusPatch", obj[w], NoKey)
          ELSE Return(w, "StatusPatch", sc, stamped, NoKey, NoKey,
                      StoreStatusPatch(store, base, stamped))
    /\ UNCHANGED <<ctx, pc, loc, codec, ev, watchVars>>

\* tracingStatusClient.Create of a sub-resource of the object the worker holds
StatusCreate(w) ==
    /\ CanStart(w)
    /\ obj[w].exists
    /\ LET sc == startSpanFromContext(ctx[w], obj[w], nextId)
           stamped == StampConditions(sc, obj[w])
       IN IF ~GVKForObject(obj[w]) THEN Refuse(w, "StatusCreate", obj[w], NoKey)
          ELSE Return(w, "StatusCreate", sc, stamped, NoKey, NoKey,
                      StoreStatusCreate(store, stamped))
    /\ UNCHANGED <<ctx, pc, loc, codec, ev, watchVars>>

\* EndTrace's comparison with its sense inverted
TraceIDChangedInverted(current, o) ==
    AnnValue(current, TraceIDAnnotation) = AnnValue(o, TraceIDAnnotation)

\* EndTrace without its comparison
TraceIDChangedNever(current, o) == FALSE

\* EndTrace's comparison of the re-read object with the one in memory
TraceIDChanged(current, o) ==
    AnnValue(current, TraceIDAnnotation) # AnnValue(o, TraceIDAnnotation)

\* tracingClient.EndTrace up to its first store write: the span, the nil
\* check, the re-read of the stored object and the comparison of trace ids
EndTrace(w) ==
    /\ CanStart(w)
    /\ obj[w].exists
    /\ nextId' = nextId + 1
    /\ LET sc == startSpanFromContext(ctx[w], obj[w], nextId)
           r == StoreGet(store, obj[w].key, obj[w])
       IN IF DOMAIN obj[w].ann = {}
          THEN /\ last' = [last EXCEPT ![w] = Call("EndTrace", "none", sc, NoObj, NoKey, NoKey, obj[w].kind)]
               /\ UNCHANGED <<obj, pc, loc>>
          ELSE IF TraceIDChanged(r.obj, obj[w])
          THEN /\ last' = [last EXCEPT ![w] =
                              Call("EndTrace", "none", sc, NoObj, obj[w].key, NoKey,
                                   obj[w].kind)]
               /\ UNCHANGED <<obj, pc, loc>>
          ELSE /\ loc' = [loc EXCEPT ![w] =
                             [span |-> sc, original |-> obj[w], current |-> r.obj,
                              statusOriginal |-> NoObj, readErr |-> r.err,
                              patchErr |-> "none"]]
               /\ obj' = [obj EXCEPT ![w].ann =
                             DelAnn(DelAnn(@, TraceIDAnnotation), SpanIDAnnotation)]
               /\ pc' = [pc EXCEPT ![w] = "endPatch"]
               /\ UNCHANGED last
    /\ UNCHANGED <<store, ctx, codec, ev, watchVars>>

\* EndTrace, continued: the patch that removes the annotations, then the
\* removal of the conditions from the in-memory object and the new snapshot
EndTracePatch(w) ==
    /\ pc[w] = "endPatch"
    /\ LET r == StorePatch(store, loc[w].original, obj[w])
           o == deleteCondition("SpanID", deleteCondition("TraceID", r.obj))
       IN /\ store' = r.st
          /\ obj' = [obj EXCEPT ![w] = o]
          /\ loc' = [loc EXCEPT ![w].statusOriginal = o, ![w].patchErr = r.err]
    /\ pc' = [pc EXCEPT ![w] = "endStatus"]
    /\ UNCHANGED <<nextId, ctx, last, codec, ev, watchVars>>

\* EndTrace, finished: tc.Status().Patch under EndTrace's span, and the return
EndTraceStatusPatch(w) ==
    /\ pc[w] = "endStatus"
    /\ nextId <= MaxIds
    /\ LET sc == startSpanFromContext(loc[w].span, obj[w], nextId)
           stamped == StampConditions(sc, obj[w])
       IN IF ~GVKForObject(obj[w])
          THEN /\ last' = [last EXCEPT ![w] =
                              Call("EndTrace", "SchemeError", loc[w].span, NoObj,
                                   obj[w].key, NoKey, obj[w].kind)]
               /\ UNCHANGED <<store, nextId, obj>>
          ELSE Return(w, "EndTrace", loc[w].span, stamped, obj[w].key, NoKey,
                      StoreStatusPatch(store, loc[w].statusOriginal, stamped))
    /\ pc' = [pc EXCEPT ![w] = "run"]
    /\ loc' = [loc EXCEPT ![w] = NoLoc]
    /\ UNCHANGED <<ctx, codec, ev, watchVars>>

\* the worker's reconcile returns: its context and its object are dropped
Finish(w) ==
    /\ pc[w] = "run"
    /\ IsValid(ctx[w]) \/ obj[w].exists
    /\ ctx' = [ctx EXCEPT ![w] = NoSpan]
    /\ obj' = [obj EXCEPT ![w] = NoObj]
    /\ last' = [last EXCEPT ![w] = NoCall]
    /\ UNCHANGED <<store, nextId, pc, loc, codec, ev, watchVars>>

\* a client that does not go through the interceptor creates the object
DirectCreate ==
    /\ ~store[PodKey].exists
    /\ store' = StoreCreate(store, NewObject(PodKey)).st
    /\ UNCHANGED <<nextId, ctx, obj, pc, loc, last, codec, ev, watchVars>>

\* a client that does not go through the interceptor puts an annotation of
\* its own on the stored object
DirectAnnotate ==
    /\ store[PodKey].exists
    /\ ~HasAnn(store[PodKey], "key1")
    /\ store' = [store EXCEPT ![PodKey] =
                     Bump(@, [@ EXCEPT !.ann = SetAnn(@, "key1", <<"value1">>)])]
    /\ UNCHANGED <<nextId, ctx, obj, pc, loc, last, codec, ev, watchVars>>

----------------------------------------------------------------------------
(* The interceptor over the store *)

Idle == [phase |-> "idle"]

InitSys ==
    /\ store = [k \in Keys |-> NotFound]
    /\ nextId = 1
    /\ ctx = [w \in Workers |-> NoSpan]
    /\ obj = [w \in Workers |-> NoObj]
    /\ pc = [w \in Workers |-> "run"]
    /\ loc = [w \in Workers |-> NoLoc]
    /\ last = [w \in Workers |-> NoCall]

\* nothing is queued and the watch has seen nothing
InitWatch == queue = {} /\ cache = NotFound

Init == InitSys /\ InitWatch /\ codec = Idle /\ ev = Idle

Next ==
    \/ DirectCreate
    \/ \E w \in Workers :
        \/ \E key \in RequestKeys : StartTrace(w, key, "Pod")
        \/ Create(w, "Pod")
        \/ Get(w, "Pod")
        \/ Update(w)
        \/ Patch(w)
        \/ StatusUpdate(w)
        \/ StatusPatch(w)
        \/ EndTrace(w)
        \/ EndTracePatch(w)
        \/ EndTraceStatusPatch(w)
        \/ Finish(w)

Spec == Init /\ [][Next]_vars

----------------------------------------------------------------------------
(* Every verb of the interceptor, on objects of registered and of
   unregistered kinds *)

VerbWorkers == {"w1"}

NextVerbs ==
    \/ DirectCreate
    \/ DirectAnnotate
    \/ \E w \in VerbWorkers :
        \/ \E key \in RequestKeys, kind \in Kinds : StartTrace(w, key, kind)
        \/ StartSpan(w)
        \/ \E kind \in Kinds : Create(w, kind)
        \/ \E kind \in Kinds : Get(w, kind)
        \/ GetInto(w)
        \/ \E kind \in Kinds : List(w, kind)
        \/ Update(w)
        \/ Patch(w)
        \/ Delete(w)
        \/ DeleteAllOf(w)
        \/ StatusUpdate(w)
        \/ StatusPatch(w)
        \/ StatusCreate(w)
        \/ EndTrace(w)
        \/ EndTracePatch(w)
        \/ EndTraceStatusPatch(w)
        \/ Finish(w)

SpecVerbs == Init /\ [][NextVerbs]_vars

----------------------------------------------------------------------------
(* The verbs on an object whose markers were written by anyone: by earlier
   calls of the interceptor or by a client that writes what it likes *)

\* a marker as an object may carry it: missing, a well-formed id, or text
\* that is no hex id
Malformed == <<"zz">>
MarkerValues(valid) == {"absent", IDString(valid), Malformed}

\* the object with the given condition-form and annotation-form markers
MarkedObject(ct, cs, at, as) ==
    LET conds == (IF ct = "absent" THEN <<>> ELSE <<Condition("TraceID", ct)>>)
                 \o (IF cs = "absent" THEN <<>> ELSE <<Condition("SpanID", cs)>>)
        a1 == IF at = "absent" THEN EmptyAnn ELSE SetAnn(EmptyAnn, TraceIDAnnotation, at)
        a2 == IF as = "absent" THEN a1 ELSE SetAnn(a1, SpanIDAnnotation, as)
    IN [NewObject(PodKey) EXCEPT !.conds = conds, !.ann = a2, !.rv = 1]

\* the stored object carries any markers: conditions that are absent, the ids
\* of trace 1 or malformed, annotations that are absent, the ids of trace 2 or
\* malformed; worker w1 has read it and runs with or without an ambient span
InitParent ==
    /\ \E ct \in MarkerValues(TraceAtom(1)), cs \in MarkerValues(SpanAtom(1)),
          at \in MarkerValues(TraceAtom(2)), as \in MarkerValues(SpanAtom(2)) :
        /\ store = [k \in Keys |-> MarkedObject(ct, cs, at, as)]
        /\ obj = [w \in Workers |->
                    IF w = "w1" THEN MarkedObject(ct, cs, at, as) ELSE NoObj]
    /\ nextId = 3
    /\ ctx \in {[w \in Workers |-> IF w = "w1" THEN c ELSE NoSpan] :
                   c \in {NoSpan, [trace |-> KeyTrace, span |-> KeySpan]}}
    /\ pc = [w \in Workers |-> "run"]
    /\ loc = [w \in Workers |-> NoLoc]
    /\ last = [w \in Workers |-> NoCall]
    /\ InitWatch
    /\ codec = Idle
    /\ ev = Idle

NextParent ==
    \E w \in Workers :
        \/ Update(w)
        \/ Patch(w)
        \/ Delete(w)
        \/ StatusUpdate(w)
        \/ StatusPatch(w)

SpecParent == InitParent /\ [][NextParent]_vars

----------------------------------------------------------------------------
(* Properties of the interceptor *)

Mutations == {"Create", "Update", "Patch"}

\* worker w's interceptor call op returned in this step
Did(w, op) == last'[w] # last[w] /\ last'[w].op = op

\* the annotation k of a stored or in-memory object, "" when there is none
MarkerOf(o, k) == IF o.exists THEN AnnValue(o, k) ELSE EmptyStr

\* no trace marker in either form
HasNoMarkers(o) ==
    \/ ~o.exists
    \/ /\ ~HasAnn(o, TraceIDAnnotation)
       /\ ~HasAnn(o, SpanIDAnnotation)
       /\ ~HasCondition(o, "TraceID")
       /\ ~HasCondition(o, "SpanID")

\* the span context of a root span: both ids from the same draw of the generator
IsRoot(sc) == \E n \in 1..(MaxIds + 1) : sc = [trace |-> TraceAtom(n), span |-> SpanAtom(n)]

\* C1: within one ambient context returned by StartTrace, after every
\* successful interceptor Create, Update or Patch the stored object's trace-id
\* annotation is the trace id of the StartTrace span and its span-id annotation
\* is the id of the span minted for the call, which is neither the StartTrace
\* span's id nor the span-id that was stored before the call.
C1_TraceContinuity ==
    [][\A w \in Workers :
        (/\ IsValid(ctx[w])
         /\ \E op \in Mutations : Did(w, op)
         /\ last'[w].err = "none")
        => LET after == Stored(store', last'[w].sent.key)
               before == Stored(store, last'[w].sent.key)
           IN /\ MarkerOf(after, TraceIDAnnotation) = IDString(ctx[w].trace)
              /\ MarkerOf(after, SpanIDAnnotation) = IDString(last'[w].span.span)
              /\ last'[w].span.span # ctx[w].span
              /\ MarkerOf(after, SpanIDAnnotation) # MarkerOf(before, SpanIDAnnotation)]_vars

\* the object a mutation of worker w is given
Given(w, op) == IF op = "Create" THEN NewObject(PodKey) ELSE obj[w]

\* C2: when the ambient context carries no valid span and the object given
\* carries no trace marker in either form, every interceptor Create, Update or
\* Patch starts a root span with ids no context or object carries yet, and the
\* object it hands to the store is stamped with that span's trace id and span id.
C2_FreshRootStamp ==
    [][\A w \in Workers : \A op \in Mutations :
        (Did(w, op) /\ ~IsValid(ctx[w]) /\ HasNoMarkers(Given(w, op)))
        => /\ last'[w].span = [trace |-> TraceAtom(nextId), span |-> SpanAtom(nextId)]
           /\ \A v \in Workers : ctx[v].trace # last'[w].span.trace
           /\ MarkerOf(store[PodKey], TraceIDAnnotation) # IDString(last'[w].span.trace)
           /\ last'[w].sent.exists
           /\ AnnValue(last'[w].sent, TraceIDAnnotation) = IDString(last'[w].span.trace)
           /\ AnnValue(last'[w].sent, SpanIDAnnotation) = IDString(last'[w].span.span)
           /\ HasAnn(last'[w].sent, TraceIDAnnotation)
           /\ HasAnn(last'[w].sent, SpanIDAnnotation)]_vars

\* an Update of a marker-free object under an empty context was stamped with
\* the ids of a root span
C2_Witness ==
    \E w \in Workers :
        /\ last[w].op = "Update"
        /\ ~IsValid(ctx[w])
        /\ IsRoot(last[w].span)
        /\ last[w].err = "none"
        /\ MarkerOf(store[PodKey], TraceIDAnnotation) = IDString(last[w].span.trace)

\* the well-formed trace ids the object's trace-id markers carry, in
\* either form
MarkerTraces(o) ==
    {t \in ValidTraceAtoms :
        \/ HasCondition(o, "TraceID") /\ getConditionMessage("TraceID", o) = IDString(t)
        \/ HasAnn(o, TraceIDAnnotation) /\ o.ann[TraceIDAnnotation] = IDString(t)}

\* the object carries trace-id markers, all of one well-formed trace id, and
\* no span-id marker in either form
TraceMarkerOnly(o) ==
    /\ o.exists
    /\ MarkerTraces(o) # {}
    /\ HasCondition(o, "TraceID") => TraceHexOk(getConditionMessage("TraceID", o))
    /\ HasAnn(o, TraceIDAnnotation) => TraceHexOk(o.ann[TraceIDAnnotation])
    /\ ~HasCondition(o, "SpanID")
    /\ ~HasAnn(o, SpanIDAnnotation)

\* C37: when the ambient context carries no valid span and the object carries
\* a parseable trace-id marker (as an annotation or as a condition) but no
\* span-id marker, the span started for the operation has the marker's trace
\* id, not a new root trace id.
C37_TraceIdAloneCarries ==
    [][\A w \in Workers :
        \A op \in {"Update", "Patch", "Delete", "StatusUpdate", "StatusPatch"} :
            (Did(w, op) /\ ~IsValid(ctx[w]) /\ TraceMarkerOnly(obj[w]))
            => last'[w].span.trace \in MarkerTraces(obj[w])]_vars

\* worker w's call of EndTrace starts in this step
EndTraceStarts(w) ==
    /\ pc[w] = "run"
    /\ obj[w].exists
    /\ pc'[w] = "endPatch" \/ Did(w, "EndTrace")

\* C3: EndTrace on an in-memory object whose trace-id marker differs from the
\* one currently stored returns no error, writes nothing to the store and so
\* leaves the stored markers as they were.
C3_MismatchSkipsTeardown ==
    [][\A w \in Workers :
        (/\ EndTraceStarts(w)
         /\ Stored(store, obj[w].key).exists
         /\ MarkerOf(obj[w], TraceIDAnnotation)
                # MarkerOf(Stored(store, obj[w].key), TraceIDAnnotation))
        => /\ Did(w, "EndTrace")
           /\ pc'[w] = "run"
           /\ last'[w].err = "none"
           /\ last'[w].sent = NoObj
           /\ store' = store]_vars

\* EndTrace returned from its comparison, the stored trace id being another
\* trace's
C3_Witness ==
    \E w \in Workers :
        /\ last[w].op = "EndTrace"
        /\ last[w].read = PodKey
        /\ last[w].sent = NoObj
        /\ obj[w].exists
        /\ store[PodKey].exists
        /\ HasAnn(obj[w], TraceIDAnnotation)
        /\ HasAnn(store[PodKey], TraceIDAnnotation)
        /\ store[PodKey].ann[TraceIDAnnotation] # obj[w].ann[TraceIDAnnotation]

\* worker w's EndTrace makes one of its two store writes in this step
EndTraceWrites(w) == pc[w] \in {"endPatch", "endStatus"} /\ pc'[w] # pc[w]

\* the trace id worker w's EndTrace is tearing down: the one on the object it
\* was called with
TornDown(w) == AnnValue(loc[w].original, TraceIDAnnotation)

\* the stored object carries the trace-id annotation of a trace other than
\* the one worker w's EndTrace is tearing down
CarriesOtherTrace(w) ==
    LET cur == Stored(store, loc[w].current.key)
    IN /\ cur.exists
       /\ HasAnn(cur, TraceIDAnnotation)
       /\ cur.ann[TraceIDAnnotation] # TornDown(w)

StoredTraceKept(w) ==
    MarkerOf(Stored(store', loc[w].current.key), TraceIDAnnotation)
        = MarkerOf(Stored(store, loc[w].current.key), TraceIDAnnotation)

\* C4, as stated: under every interleaving of an EndTrace for trace T1 with
\* another worker's Update and Patch calls stamping a trace T2, whenever the
\* stored object carries T2's trace id it still carries it after each write
\* of EndTrace.
C4_NeverErasesOtherTrace ==
    [][\A w \in Workers :
        (EndTraceWrites(w) /\ CarriesOtherTrace(w)) => StoredTraceKept(w)]_vars

\* C4, amended: a write of EndTrace for trace T1 removes the stored trace-id
\* annotation of another trace only when the object was written after
\* EndTrace re-read it, that is between its comparison and its patch.
C4_ErasesOnlyLaterWrites ==
    [][\A w \in Workers :
        (EndTraceWrites(w) /\ CarriesOtherTrace(w) /\ ~StoredTraceKept(w))
        => Stored(store, loc[w].current.key).rv > loc[w].current.rv]_vars

\* EndTrace's patch has removed the trace id another worker's Update or Patch
\* stamped on the version of the object that EndTrace had re-read
C4_Witness ==
    \E w \in Workers : \E v \in Workers \ {w} :
        /\ pc[w] = "endStatus"
        /\ store[PodKey].exists
        /\ ~HasAnn(store[PodKey], TraceIDAnnotation)
        /\ last[v].op \in {"Update", "Patch"}
        /\ last[v].err = "none"
        /\ AnnValue(last[v].sent, TraceIDAnnotation) # TornDown(w)
        /\ last[v].sent.rv = loc[w].current.rv

\* C40: EndTrace tears down only after a successful fresh read: when its
\* re-read of the object from the store fails it returns at once, having sent
\* no Patch and no status patch, and the store is as it was.
C40_FailedReadSkipsTeardown ==
    [][\A w \in Workers :
        (/\ EndTraceStarts(w)
         /\ DOMAIN obj[w].ann # {}
         /\ StoreGet(store, obj[w].key, obj[w]).err # "none")
        => /\ Did(w, "EndTrace")
           /\ pc'[w] = "run"
           /\ last'[w].sent = NoObj
           /\ store' = store]_vars

\* C35: EndTrace masks no store error: when the Patch that removes the trace
\* annotations failed, EndTrace returns that error, also when the status patch
\* after it succeeded.
C35_EndTraceReturnsPatchError ==
    [][\A w \in Workers :
        (pc[w] = "endStatus" /\ Did(w, "EndTrace") /\ loc[w].patchErr # "none")
        => last'[w].err = loc[w].patchErr]_vars

\* C36: once EndTrace has torn a trace down and returned no error, the trace
\* is not resumed: the same worker's next StartTrace on the object, with a
\* plain key and no ambient span, starts a fresh root whose trace id differs
\* from that of the EndTrace span.
C36_EndedTraceNotResumed ==
    [][\A w \in Workers :
        (/\ last[w].op = "EndTrace"
         /\ last[w].err = "none"
         /\ last[w].sent.exists
         /\ ~IsValid(ctx[w])
         /\ Did(w, "StartTrace")
         /\ last'[w].arg = PodKey
         /\ last'[w].kind = last[w].kind)
        => /\ last'[w].span = [trace |-> TraceAtom(nextId), span |-> SpanAtom(nextId)]
           /\ last'[w].span.trace # last[w].span.trace]_vars

\* C5: when EndTrace, having found the stored trace id equal to the one in
\* memory, returns without error and no other worker has touched the object,
\* the stored object carries no trace marker in either form: no trace-id or
\* span-id annotation and no TraceID or SpanID condition.
C5_TeardownRemovesAllMarkers ==
    [][\A w \in Workers :
        (/\ pc[w] = "endStatus"
         /\ Did(w, "EndTrace")
         /\ last'[w].err = "none"
         /\ \A v \in Workers \ {w} : last[v] = NoCall /\ pc[v] = "run")
        => HasNoMarkers(Stored(store', last'[w].read))]_vars

\* C10: StartTrace called with a key named T;S;K;N;R reads under the name R
\* in the key's namespace, and when it returns the in-memory object's trace-id
\* and span-id annotations are T and S, whatever the read had put there.
C10_StartTraceOverride ==
    [][\A w \in Workers :
        (Did(w, "StartTrace") /\ Len(Split(last'[w].arg.Name)) = 5)
        => LET parts == Split(last'[w].arg.Name)
           IN /\ last'[w].read = Key(last'[w].arg.Namespace, parts[5])
              /\ HasAnn(obj'[w], TraceIDAnnotation)
              /\ HasAnn(obj'[w], SpanIDAnnotation)
              /\ obj'[w].ann[TraceIDAnnotation] = parts[1]
              /\ obj'[w].ann[SpanIDAnnotation] = parts[2]]_vars

\* StartTrace with a composite key returned an object read from a store that
\* holds other trace markers for it
C10_Witness ==
    \E w \in Workers :
        /\ last[w].op = "StartTrace"
        /\ last[w].arg = CompositeKey
        /\ last[w].read = PodKey
        /\ obj[w].exists
        /\ store[PodKey].exists
        /\ obj[w].ann[TraceIDAnnotation] = <<KeyTrace>>
        /\ obj[w].rv = store[PodKey].rv
        /\ HasAnn(store[PodKey], TraceIDAnnotation)
        /\ store[PodKey].ann[TraceIDAnnotation] # <<KeyTrace>>
        /\ store[PodKey].ann[SpanIDAnnotation] # <<KeySpan>>

\* C11: StartTrace called with a composite key whose first two fields are a
\* valid trace id T and span id S, under an ambient context without a valid
\* span, returns a span of trace T, whatever markers (annotations or
\* conditions) the stored object carries.
C11_KeyTraceTakesPrecedence ==
    [][\A w \in Workers :
        (/\ Did(w, "StartTrace")
         /\ Len(Split(last'[w].arg.Name)) = 5
         /\ TraceHexOk(Split(last'[w].arg.Name)[1])
         /\ SpanHexOk(Split(last'[w].arg.Name)[2])
         /\ ~IsValid(ctx[w]))
        => IDString(last'[w].span.trace) = Split(last'[w].arg.Name)[1]]_vars

\* C13: whenever the read of the real key fails because the object does not
\* exist, StartTrace returns that error.
C13_StartTraceReturnsReadError ==
    [][\A w \in Workers :
        (Did(w, "StartTrace") /\ ~Stored(store, last'[w].read).exists)
        => last'[w].err = "NotFound"]_vars

\* the verbs that make one store call for the object or key they are given
StoreVerbs ==
    {"Create", "Update", "Patch", "Get", "List", "Delete", "DeleteAllOf",
     "StatusUpdate", "StatusPatch", "StatusCreate"}

\* worker w's call op went past the resolution of the kind
Resolved(w, op) == Did(w, op) /\ last'[w].err # "SchemeError"

\* what one call of the store operation behind op answers in the state st: its
\* error and the store it leaves; base is the object the caller held, call the
\* record of the interceptor call
StoreAnswer(op, st, base, call) ==
    CASE op = "Create" -> StoreCreate(st, call.sent)
      [] op = "Update" -> StoreUpdate(st, call.sent)
      [] op = "Patch" -> StorePatch(st, base, call.sent)
      [] op = "Get" -> StoreGet(st, call.read, OfKind("Pod", BlankObject))
      [] op = "List" -> StoreList(st, "Pod")
      [] op = "Delete" -> StoreDelete(st, call.sent)
      [] op = "DeleteAllOf" -> StoreDeleteAllOf(st, call.sent)
      [] op = "StatusUpdate" -> StoreStatusUpdate(st, call.sent)
      [] op = "StatusPatch" -> StoreStatusPatch(st, base, call.sent)
      [] op = "StatusCreate" -> StoreStatusCreate(st, call.sent)

\* C12: each of Create, Update, Patch, Get, List, Delete, DeleteAllOf and the
\* Status writer's Update, Patch and Create, once the kind is resolved, leaves
\* the store as exactly one call of the underlying operation leaves it and
\* returns exactly the error of that call: nil if and only if it succeeded.
C12_OneStoreCallErrorUnchanged ==
    [][\A w \in Workers : \A op \in StoreVerbs :
        Resolved(w, op)
        => LET r == StoreAnswer(op, store, obj[w], last'[w])
           IN /\ last'[w].err = r.err
              /\ store' = r.st
              /\ (last'[w].err = "none") = (r.err = "none")]_vars

\* a write through the interceptor has returned the store's conflict
C12_Witness ==
    \E w \in Workers :
        /\ last[w].op \in {"Update", "StatusUpdate"}
        /\ last[w].err = "Conflict"
        /\ last[w].sent.rv # store[last[w].sent.key].rv

\* the TraceID and SpanID conditions of o carry the ids of the span
ConditionsCarry(o, sc) ==
    /\ HasCondition(o, "TraceID")
    /\ HasCondition(o, "SpanID")
    /\ getConditionMessage("TraceID", o) = IDString(sc.trace)
    /\ getConditionMessage("SpanID", o) = IDString(sc.span)

\* C15: a Status().Update or Status().Patch through the interceptor sets the
\* object's TraceID and SpanID condition messages to the ids of the span
\* started for the call and leaves the annotations alone, those of the object
\* it sends and those stored; when it succeeds the stored conditions carry the
\* span's ids, so a call that continues the trace of the stored trace-id
\* annotation leaves a TraceID condition equal to that annotation next to the
\* span-id annotation of the earlier write.
C15_StatusWriteStampsConditions ==
    [][\A w \in Workers : \A op \in {"StatusUpdate", "StatusPatch"} :
        Resolved(w, op)
        => LET call == last'[w]
               before == Stored(store, call.sent.key)
               after == Stored(store', call.sent.key)
           IN /\ ConditionsCarry(call.sent, call.span)
              /\ call.sent.ann = obj[w].ann
              /\ \A k \in Keys :
                    /\ Stored(store', k).exists = Stored(store, k).exists
                    /\ Stored(store, k).exists
                       => Stored(store', k).ann = Stored(store, k).ann
              /\ call.err = "none"
                 => /\ ConditionsCarry(after, call.span)
                    /\ IDString(call.span.trace) = AnnValue(before, TraceIDAnnotation)
                       => /\ getConditionMessage("TraceID", after)
                                = AnnValue(after, TraceIDAnnotation)
                          /\ AnnValue(after, SpanIDAnnotation)
                                = AnnValue(before, SpanIDAnnotation)]_vars

\* a status write that continued the trace of the stored annotations has left
\* its own span id in the SpanID condition and the earlier one in the annotation
C15_Witness ==
    \E w \in Workers :
        LET o == Stored(store, PodKey)
        IN /\ last[w].op \in {"StatusUpdate", "StatusPatch"}
           /\ last[w].err = "none"
           /\ o.exists
           /\ ConditionsCarry(o, last[w].span)
           /\ AnnValue(o, TraceIDAnnotation) = IDString(last[w].span.trace)
           /\ HasAnn(o, SpanIDAnnotation)
           /\ AnnValue(o, SpanIDAnnotation) # IDString(last[w].span.span)

\* the verbs that take their parent from the object they are handed
ObjectVerbs == {"Update", "Patch", "Delete", "StatusUpdate", "StatusPatch"}

\* the condition-form markers are there and both parse
CondParses(o) ==
    /\ HasCondition(o, "TraceID") /\ TraceHexOk(getConditionMessage("TraceID", o))
    /\ HasCondition(o, "SpanID") /\ SpanHexOk(getConditionMessage("SpanID", o))

\* there is a TraceID condition and it is no hex id
CondMalformed(o) ==
    HasCondition(o, "TraceID") /\ ~TraceHexOk(getConditionMessage("TraceID", o))

\* the annotation-form markers are there and both parse
AnnParses(o) ==
    /\ HasAnn(o, TraceIDAnnotation) /\ TraceHexOk(o.ann[TraceIDAnnotation])
    /\ HasAnn(o, SpanIDAnnotation) /\ SpanHexOk(o.ann[SpanIDAnnotation])

\* there is a trace-id annotation and it is no hex id
AnnMalformed(o) ==
    HasAnn(o, TraceIDAnnotation) /\ ~TraceHexOk(o.ann[TraceIDAnnotation])

\* C18: the trace of the span a verb starts on an object is chosen in strict
\* precedence: the ambient span's trace when the ambient span is valid,
\* whatever the object carries; else the trace of the object's TraceID/SpanID
\* conditions when they parse; else, the conditions being absent or malformed,
\* the trace of its annotations when they parse; else, no source giving a
\* trace id that parses, a fresh root trace with a new trace id.
C18_ParentPrecedence ==
    [][\A w \in Workers : \A op \in ObjectVerbs :
        Resolved(w, op)
        => LET o == obj[w]
               sc == last'[w].span
               noCond == ~HasCondition(o, "TraceID") \/ CondMalformed(o)
               noAnn == ~HasAnn(o, TraceIDAnnotation) \/ AnnMalformed(o)
           IN /\ IsValid(ctx[w]) => sc.trace = ctx[w].trace
              /\ ~IsValid(ctx[w])
                 => /\ CondParses(o)
                       => IDString(sc.trace) = getConditionMessage("TraceID", o)
                    /\ (noCond /\ AnnParses(o))
                       => IDString(sc.trace) = o.ann[TraceIDAnnotation]
                    /\ (noCond /\ noAnn) => sc.trace = TraceAtom(nextId)]_vars

\* C19: a malformed identifier is never fatal and counts as absent: with no
\* ambient span, an object whose TraceID condition is malformed and whose
\* annotations parse gets a span that continues the annotations' trace; an
\* object whose every marker is malformed gets a fresh root span; in both
\* cases the verb goes on to its store call.
C19_MalformedFallsThrough ==
    [][\A w \in Workers : \A op \in ObjectVerbs :
        (Resolved(w, op) /\ ~IsValid(ctx[w]) /\ CondMalformed(obj[w]))
        => /\ last'[w].sent # NoObj
           /\ AnnParses(obj[w])
              => IDString(last'[w].span.trace) = obj[w].ann[TraceIDAnnotation]
           /\ AnnMalformed(obj[w])
              => last'[w].span.trace = TraceAtom(nextId)]_vars

\* C21: EndTrace on an object that carries neither a trace-id nor a span-id
\* annotation, whether it has no annotations at all or only others, is a
\* no-op: it returns at once with a nil error, has read nothing from the
\* store, writes nothing to it and leaves the object as it was.
C21_EndTraceNoMarkersNoOp ==
    [][\A w \in Workers :
        (/\ EndTraceStarts(w)
         /\ ~HasAnn(obj[w], TraceIDAnnotation)
         /\ ~HasAnn(obj[w], SpanIDAnnotation))
        => /\ Did(w, "EndTrace")
           /\ pc'[w] = "run"
           /\ last'[w].err = "none"
           /\ last'[w].read = NoKey
           /\ last'[w].sent = NoObj
           /\ store' = store
           /\ obj'[w] = obj[w]]_vars

\* every verb of the interceptor that is handed an object or a list
\* C29: Get and List take their span from the ambient context only: it
\* continues the trace of the ambient span when that is valid and starts a
\* fresh root trace otherwise, whatever markers the object passed in carries.
C29_ReadSpanFromContextOnly ==
    [][\A w \in Workers : \A op \in {"Get", "List"} :
        Resolved(w, op)
        => /\ last'[w].span.span = SpanAtom(nextId)
           /\ last'[w].span.trace = IF IsValid(ctx[w]) THEN ctx[w].trace
                                    ELSE TraceAtom(nextId)]_vars

\* C30: Get, List, Delete and DeleteAllOf stamp nothing: Delete and
\* DeleteAllOf hand the store the object as it was passed in and leave it as
\* it was, Get and List write nothing, and the stored object changes only as
\* the store call changes it; the object a Get returns is the stored one, or
\* on error the one passed in.
C30_ReadsAndDeletesStampNothing ==
    [][\A w \in Workers :
        /\ Did(w, "Delete") \/ Did(w, "DeleteAllOf")
           => /\ obj'[w] = obj[w]
              /\ last'[w].err = "SchemeError"
                 => last'[w].sent = NoObj /\ store' = store
              /\ last'[w].err # "SchemeError"
                 => /\ last'[w].sent = obj[w]
                    /\ store' = IF last'[w].op = "Delete"
                                THEN StoreDelete(store, obj[w]).st
                                ELSE StoreDeleteAllOf(store, obj[w]).st
        /\ Did(w, "Get")
           => /\ store' = store
              /\ last'[w].sent = NoObj
              /\ \/ last'[w].err = "none" /\ obj'[w] = Stored(store, PodKey)
                 \/ /\ last'[w].err # "none"
                    /\ \/ obj'[w].ann = EmptyAnn /\ obj'[w].conds = <<>>
                       \/ obj[w].exists /\ obj'[w] = obj[w]
        /\ Did(w, "List")
           => /\ store' = store
              /\ last'[w].sent = NoObj
              /\ obj'[w] = obj[w]]_vars

\* an object that carries no marker was deleted under a valid ambient span
C30_Witness ==
    \E w \in Workers :
        /\ last[w].op = "Delete"
        /\ last[w].err = "none"
        /\ IsValid(last[w].span)
        /\ last[w].sent.exists
        /\ HasNoMarkers(last[w].sent)
        /\ ~store[PodKey].exists

\* C31: every span started by Create, Update, Patch, Get, List, Delete,
\* DeleteAllOf, EndTrace and the status writer's calls is ended before the
\* call returns, on success and on store error alike; StartTrace and
\* StartSpan are the only calls that return with their span open, and they
\* hand it to the caller in the context they return.
C31_SpansEndedOnReturn ==
    [][\A w \in Workers :
        (last'[w] # last[w] /\ last'[w].op # "none")
        => /\ last'[w].open <=> last'[w].op \in {"StartTrace", "StartSpan"}
           /\ last'[w].open
              => /\ IsValid(last'[w].span)
                 /\ ctx'[w] = last'[w].span]_vars

\* an Update that the store refused returned with its span ended
C31_Witness ==
    \E w \in Workers :
        /\ last[w].op = "Update"
        /\ last[w].err = "Conflict"
        /\ IsValid(last[w].span)
        /\ ~last[w].open

AllVerbs == StoreVerbs \cup {"StartTrace", "EndTrace"}

\* C20: when the kind of the object (or list) a verb is called with cannot be
\* resolved from the scheme, the call returns the resolution error at once: it
\* has started no span and made no store call.
C20_UnresolvedKindFailsFast ==
    [][\A w \in Workers : \A op \in AllVerbs :
        (Did(w, op) /\ last'[w].kind \notin Scheme)
        => /\ last'[w].err = "SchemeError"
           /\ last'[w].span = NoSpan
           /\ nextId' = nextId
           /\ last'[w].sent = NoObj
           /\ last'[w].read = NoKey
           /\ store' = store]_vars

----------------------------------------------------------------------------
(* The composite key codec on its own *)

\* all strings of at most n atoms over the alphabet A
Strings(A, n) == UNION {[1..k -> A] : k \in 0..n}

\* the five fields the codec is fed: each is made of the separator and of one
\* atom that stands for a run of other characters
CodecInputs ==
    [T : Strings({"t", SEP}, MaxFieldLen),
     S : Strings({"s", SEP}, MaxFieldLen),
     K : Strings({"k", SEP}, MaxFieldLen),
     N : Strings({"n", SEP}, MaxFieldLen),
     R : Strings({"r", SEP}, MaxFieldLen)]

\* the object whose markers and identity EmbedTraceIDInNamespacedName reads
Carrier(in) ==
    [NewObject(Key(DefaultNamespace, in.N)) EXCEPT
        !.ann = SetAnn(SetAnn(@, TraceIDAnnotation, in.T), SpanIDAnnotation, in.S)]

\* EmbedTraceIDInNamespacedName with the object's name and kind exchanged
EmbedTraceIDInNamespacedNameNameFirst(key, o, kind) ==
    LET traceID == AnnValue(o, TraceIDAnnotation)
        spanID == AnnValue(o, SpanIDAnnotation)
    IN IF traceID = EmptyStr \/ spanID = EmptyStr THEN [key |-> key, err |-> "none"]
       ELSE IF ~GVKForObject(o) THEN [key |-> key, err |-> "SchemeError"]
       ELSE [key |-> [key EXCEPT !.Name =
                         Sprintf5(traceID, spanID, o.key.Name, kind, @)],
             err |-> "none"]

\* tracingClient.EmbedTraceIDInNamespacedName: kind is the name the scheme gives
\* the object's kind when it resolves; the result is the key as the call
\* leaves it and the error returned
EmbedTraceIDInNamespacedName(key, o, kind) ==
    LET traceID == AnnValue(o, TraceIDAnnotation)
        spanID == AnnValue(o, SpanIDAnnotation)
    IN IF traceID = EmptyStr \/ spanID = EmptyStr THEN [key |-> key, err |-> "none"]
       ELSE IF ~GVKForObject(o) THEN [key |-> key, err |-> "SchemeError"]
       ELSE [key |-> [key EXCEPT !.Name =
                         Sprintf5(traceID, spanID, kind, o.key.Name, @)],
             err |-> "none"]

\* requestWithTraceIDToRequest keyed by the owner's name alone
requestWithTraceIDToRequestNameOnly(req) ==
    Key(req.NamespacedName.Namespace, req.NamespacedName.Name)

\* requestWithTraceIDToRequest, for one request record
requestWithTraceIDToRequest(req) ==
    IF req.TraceID # EmptyStr /\ req.SpanID # EmptyStr
    THEN Key(req.NamespacedName.Namespace,
             Sprintf5(req.TraceID, req.SpanID, req.SenderKind, req.SenderName,
                      req.NamespacedName.Name))
    ELSE Key(req.NamespacedName.Namespace, req.NamespacedName.Name)

\* what the interceptor decodes from a key: the real name, the caller's kind
\* and name, and the annotations the key puts on a blank object
Decoded(by, in, key) ==
    [phase |-> "decoded", by |-> by, in |-> in, key |-> key,
     name |-> getNameFromNamespacedName(key),
     kind |-> getCallerKindFromNamespacedName(key),
     caller |-> getCallerNameFromNamespacedName(key),
     ann |-> overrideTraceIDFromNamespacedName(key, BlankObject).ann]

\* a reconciler embeds the markers of an object it holds, of a kind the
\* scheme knows or not, into a key; a call that fails hands no key on
Embed ==
    /\ codec.phase = "input"
    /\ \E kind \in Kinds :
        LET o == OfKind(kind, Carrier(codec.in))
            r == EmbedTraceIDInNamespacedName(
                     Key(DefaultNamespace, codec.in.R), o, codec.in.K)
        IN codec' = [phase |-> IF r.err = "none" THEN "encoded" ELSE "failed",
                     by |-> "Embed", in |-> codec.in, key |-> r.key,
                     err |-> r.err, obj |-> o]
    /\ UNCHANGED <<sysVars, ev, watchVars>>

MapRequest ==
    /\ codec.phase = "input"
    /\ codec' = [phase |-> "encoded", by |-> "Request", in |-> codec.in,
                 key |-> requestWithTraceIDToRequest(
                             [NamespacedName |-> Key(DefaultNamespace, codec.in.R),
                              TraceID |-> codec.in.T, SpanID |-> codec.in.S,
                              SenderName |-> codec.in.N, SenderKind |-> codec.in.K])]
    /\ UNCHANGED <<sysVars, ev, watchVars>>

\* the key reaches StartTrace, which decodes it
Decode ==
    /\ codec.phase = "encoded"
    /\ codec' = Decoded(codec.by, codec.in, codec.key)
    /\ UNCHANGED <<sysVars, ev, watchVars>>

\* a key that was never encoded reaches StartTrace
DecodePlain ==
    /\ codec.phase = "input"
    /\ codec' = Decoded("plain", codec.in, Key(DefaultNamespace, codec.in.R))
    /\ UNCHANGED <<sysVars, ev, watchVars>>

\* a key whose name holds the first two, three or four of the fields reaches
\* StartTrace
DecodeShort ==
    /\ codec.phase = "input"
    /\ \E n \in 2..4 :
        LET in == codec.in
            name == in.T \o <<SEP>> \o in.S
                        \o (IF n >= 3 THEN <<SEP>> \o in.K ELSE EmptyStr)
                        \o (IF n >= 4 THEN <<SEP>> \o in.N ELSE EmptyStr)
        IN codec' = Decoded("short", in, Key(DefaultNamespace, name))
    /\ UNCHANGED <<sysVars, ev, watchVars>>

InitCodec ==
    /\ InitSys
    /\ InitWatch
    /\ ev = Idle
    /\ codec \in {[phase |-> "input", in |-> in] : in \in CodecInputs}

NextCodec == Embed \/ MapRequest \/ Decode \/ DecodePlain \/ DecodeShort

SpecCodec == InitCodec /\ [][NextCodec]_vars

NoSep(s) == \A i \in 1..Len(s) : s[i] # SEP

Fields(in) == {in.T, in.S, in.K, in.N, in.R}

\* decoding recovered the five fields
Recovered ==
    /\ codec.name = codec.in.R
    /\ codec.kind = codec.in.K
    /\ codec.caller = codec.in.N
    /\ DOMAIN codec.ann = {TraceIDAnnotation, SpanIDAnnotation}
    /\ codec.ann[TraceIDAnnotation] = codec.in.T
    /\ codec.ann[SpanIDAnnotation] = codec.in.S

\* decoding a plain name returns it with no trace context and no caller
PlainUnchanged ==
    (codec.phase = "decoded" /\ codec.by = "plain" /\ NoSep(codec.in.R))
    => /\ codec.name = codec.in.R
       /\ codec.kind = EmptyStr
       /\ codec.caller = EmptyStr
       /\ codec.ann = EmptyAnn

\* C9, as stated: for any non-empty T, S, K, N and R, decoding the name that
\* EmbedTraceIDInNamespacedName or the owner-event mapper builds from them
\* recovers R, T, S, K and N; decoding a name without separator returns it
\* unchanged, with no trace context and no caller identity.
C9_RoundTrip ==
    /\ (/\ codec.phase = "decoded"
        /\ codec.by \in {"Embed", "Request"}
        /\ \A f \in Fields(codec.in) : f # EmptyStr)
       => Recovered
    /\ PlainUnchanged

\* C9, amended: the round trip recovers the five fields when they are
\* non-empty and none of them contains the separator.
C9_RoundTripNoSeparator ==
    /\ (/\ codec.phase = "decoded"
        /\ codec.by \in {"Embed", "Request"}
        /\ \A f \in Fields(codec.in) : f # EmptyStr /\ NoSep(f))
       => Recovered
    /\ PlainUnchanged

\* a composite name built from five separator-free fields has been decoded
C9_Witness ==
    /\ codec.phase = "decoded"
    /\ codec.by = "Request"
    /\ \A f \in Fields(codec.in) : f # EmptyStr /\ NoSep(f)
    /\ Len(Split(codec.key.Name)) = 5
    /\ codec.name = codec.in.R

\* C22: StartTrace takes key.Name for a composite key only when splitting it
\* on ";" gives exactly five fields; a name of one to four fields, or of six
\* or more, is read under its full literal name, puts no marker on the object
\* and gives no caller identity.
C22_FiveFieldsOnly ==
    codec.phase = "decoded" =>
        LET parts == Split(codec.key.Name)
        IN /\ Len(parts) # 5
              => /\ codec.name = codec.key.Name
                 /\ codec.kind = EmptyStr
                 /\ codec.caller = EmptyStr
                 /\ codec.ann = EmptyAnn
           /\ Len(parts) = 5
              => /\ codec.name = parts[5]
                 /\ codec.kind = parts[3]
                 /\ codec.caller = parts[4]
                 /\ DOMAIN codec.ann = {TraceIDAnnotation, SpanIDAnnotation}
                 /\ codec.ann[TraceIDAnnotation] = parts[1]
                 /\ codec.ann[SpanIDAnnotation] = parts[2]

\* a name of four non-empty fields has been decoded
C22_Witness ==
    /\ codec.phase = "decoded"
    /\ codec.by = "short"
    /\ Len(Split(codec.key.Name)) = 4
    /\ \A i \in 1..4 : Split(codec.key.Name)[i] # EmptyStr
    /\ codec.name = codec.key.Name

\* EmbedTraceIDInNamespacedName has returned
Embedded == codec.phase \in {"encoded", "failed"} /\ codec.by = "Embed"

\* C14: EmbedTraceIDInNamespacedName, on an object that carries both
\* annotations and whose kind resolves, rewrites key.Name to
\* traceId;spanId;objKind;objName;originalName with the ids of the object's
\* annotations and the object's own kind and name, leaves key.Namespace as it
\* was and returns nil; on an object without the markers it leaves the key
\* unchanged and returns nil.
C14_EmbedRewritesName ==
    Embedded =>
        LET in == codec.in
            marked == in.T # EmptyStr /\ in.S # EmptyStr
        IN /\ codec.key.Namespace = DefaultNamespace
           /\ (marked /\ GVKForObject(codec.obj))
              => /\ codec.err = "none"
                 /\ codec.key.Name =
                        in.T \o <<SEP>> \o in.S \o <<SEP>> \o in.K \o <<SEP>>
                             \o in.N \o <<SEP>> \o in.R
           /\ ~marked
              => /\ codec.err = "none"
                 /\ codec.key.Name = in.R

\* a name was embedded for an object whose kind and name differ
C14_Witness ==
    /\ Embedded
    /\ codec.err = "none"
    /\ codec.in.K # codec.in.N
    /\ NoSep(codec.in.K) /\ NoSep(codec.in.N)
    /\ Len(Split(codec.key.Name)) = 5
    /\ Split(codec.key.Name)[3] = codec.in.K
    /\ Split(codec.key.Name)[4] = codec.in.N

----------------------------------------------------------------------------
(* The condition helpers on their own *)

\* the condition entries an object may hold: of the two marker types or of a
\* type of its own, with any message, with or without a value in the fields
\* the conversion does not copy
ConditionEntries ==
    [type : {"TraceID", "SpanID", "Ready"}, status : {"True"},
     msg : {<<"a">>, <<"b">>}, other : {0, 1}]

\* the objects the helpers are called on, of a kind the scheme knows or not
ConditionObjects ==
    {[OfKind(kind, NewObject(PodKey)) EXCEPT !.conds = conds] :
        kind \in Kinds,
        conds \in UNION {[1..n -> ConditionEntries] : n \in 0..MaxConds}}

\* setConditionMessage(type, "new", obj), then getConditionMessage(type, obj)
SetCondition ==
    /\ ev.phase = "input"
    /\ LET out == setConditionMessage(ev.type, <<"new">>, ev.obj)
       IN ev' = [phase |-> "set", obj |-> ev.obj, type |-> ev.type, out |-> out,
                 found |-> HasCondition(out, ev.type),
                 got |-> IF HasCondition(out, ev.type)
                         THEN getConditionMessage(ev.type, out) ELSE EmptyStr]
    /\ UNCHANGED <<sysVars, codec, watchVars>>

\* deleteCondition(type, obj)
DeleteCondition ==
    /\ ev.phase = "input"
    /\ ev' = [phase |-> "deleted", obj |-> ev.obj, type |-> ev.type,
              out |-> deleteCondition(ev.type, ev.obj)]
    /\ UNCHANGED <<sysVars, codec, watchVars>>

InitConditions ==
    /\ InitSys
    /\ InitWatch
    /\ codec = Idle
    /\ ev \in {[phase |-> "input", obj |-> o, type |-> t] :
                  o \in ConditionObjects, t \in {"TraceID", "SpanID", "Ready"}}

NextConditions == SetCondition \/ DeleteCondition

SpecConditions == InitConditions /\ [][NextConditions]_vars

\* C33: deleteCondition(type, obj) removes from obj's conditions exactly the
\* entries of the given type and keeps every other entry, in its original
\* order; on a list holding only the matching entry the result is empty.
C33_DeleteRemovesExactlyTheType ==
    (ev.phase = "deleted" /\ GVKForObject(ev.obj))
    => /\ Len(ev.out.conds)
            = Len(SelectSeq(ev.obj.conds, LAMBDA c : c.type # ev.type))
       /\ \A i \in 1..Len(ev.out.conds) :
            LET kept == SelectSeq(ev.obj.conds, LAMBDA c : c.type # ev.type)
            IN /\ i <= Len(kept)
               /\ ev.out.conds[i].type = kept[i].type
               /\ ev.out.conds[i].msg = kept[i].msg

\* C34: after setConditionMessage(type, msg, obj) succeeds,
\* getConditionMessage(type, obj) returns msg: the message of the first entry
\* of the type is replaced in place, or an entry with status Unknown is
\* appended; every other entry is left unchanged in all of its fields, and
\* the number of entries grows by at most one.
C34_SetThenGet ==
    (ev.phase = "set" /\ GVKForObject(ev.obj))
    => LET before == ev.obj.conds
           after == ev.out.conds
           existed == CondIdx(ev.obj, ev.type) # {}
           at == IF existed THEN FirstIdx(CondIdx(ev.obj, ev.type))
                 ELSE Len(before) + 1
       IN /\ ev.found /\ ev.got = <<"new">>
          /\ Len(after) = IF existed THEN Len(before) ELSE Len(before) + 1
          /\ after[at].type = ev.type
          /\ after[at].msg = <<"new">>
          /\ ~existed => after[at].status = "Unknown"
          /\ \A i \in 1..Len(before) : i # at => after[i] = before[i]

----------------------------------------------------------------------------
(* The owner-event mapper (enqueueRequestForOwner) *)

\* the kind the handler was built for (groupKind.Kind); its group is the core
\* group, the empty string
OwnerKind == <<"ConfigMap">>

\* the handlers that can be built: with or without OnlyControllerOwner, for an
\* owner type the RESTMapper knows as namespaced or as cluster-scoped
OwnerHandlers == [isController : BOOLEAN, rootScoped : BOOLEAN]

\* an owner reference; its APIVersion is given as schema.ParseGroupVersion
\* reads it: whether it parses, and the group and version it then holds
OwnerReference(parses, group, version, kind, name, controller) ==
    [APIVersion |-> [parses |-> parses, Group |-> group, Version |-> version],
     Kind |-> kind, Name |-> name, Controller |-> controller]

\* the references a child may carry: two of the handler's type, one of them
\* the controller, one of another kind, one of the same kind in another
\* group, one whose APIVersion does not parse and one of a version the
\* RESTMapper has no mapping for
OwnerReferences ==
    [plain |-> OwnerReference(TRUE, EmptyStr, <<"v1">>, OwnerKind, <<"owner">>, FALSE),
     ctl |-> OwnerReference(TRUE, EmptyStr, <<"v1">>, OwnerKind, <<"owner-b">>, TRUE),
     secret |-> OwnerReference(TRUE, EmptyStr, <<"v1">>, <<"Secret">>, <<"owner">>, FALSE),
     group |-> OwnerReference(TRUE, <<"example.io">>, <<"v1">>, OwnerKind, <<"owner-c">>, TRUE),
     bad |-> OwnerReference(FALSE, EmptyStr, EmptyStr, OwnerKind, <<"owner-d">>, FALSE),
     v2 |-> OwnerReference(TRUE, EmptyStr, <<"v2">>, OwnerKind, <<"owner-e">>, FALSE)]

\* the lists of references a child may carry (metadata.ownerReferences)
OwnerLists ==
    LET r == OwnerReferences
    IN {<<>>, <<r.plain>>, <<r.secret>>, <<r.group>>,
        <<r.plain, r.ctl>>, <<r.secret, r.ctl, r.plain>>,
        <<r.group, r.ctl>>, <<r.bad, r.plain>>, <<r.plain, r.bad>>,
        <<r.v2, r.plain>>, <<r.plain, r.v2>>}

ChildName == <<"child">>

\* values a child's trace-id and span-id annotations may hold; the empty
\* string stands for a missing annotation
ChildTraceIDs == {EmptyStr, <<"ta">>, <<"tb">>, <<"ta", SEP, "x">>}
ChildSpanIDs == {EmptyStr, <<"sa">>, <<"x", SEP, "sa">>}

\* a state of the watched child object
ChildObject(kind, t, s, owners) ==
    LET a1 == IF t = EmptyStr THEN EmptyAnn ELSE SetAnn(EmptyAnn, TraceIDAnnotation, t)
        a2 == IF s = EmptyStr THEN a1 ELSE SetAnn(a1, SpanIDAnnotation, s)
    IN [exists |-> TRUE, kind |-> kind, key |-> Key(DefaultNamespace, ChildName),
        ann |-> a2, conds |-> <<>>, rv |-> 1, owners |-> owners]

ChildObjects(kind) ==
    {ChildObject(kind, t, s, owners) :
        t \in ChildTraceIDs, s \in ChildSpanIDs, owners \in OwnerLists}

\* getOwnersReferences that takes every reference in controller-only mode too
getOwnersReferencesAll(e, o) == IF ~o.exists THEN <<>> ELSE o.owners

\* getOwnersReferences: every reference, or in controller-only mode the one
\* metav1.GetControllerOf returns, the first with Controller set
getOwnersReferences(e, o) ==
    IF ~o.exists THEN <<>>
    ELSE IF ~e.isController THEN o.owners
    ELSE LET ctl == SelectSeq(o.owners, LAMBDA ref : ref.Controller)
         IN IF ctl = <<>> THEN <<>> ELSE <<ctl[1]>>

\* getOwnerReconcileRequest: the records it adds to the result map.  The loop
\* over the references returns at the first reference whose APIVersion does
\* not parse, at once when the child's kind does not resolve, and at the first
\* matching reference the RESTMapper has no mapping for.
getOwnerReconcileRequest(e, o, eventKind) ==
    LET refs == getOwnersReferences(e, o)
        match(ref) == ref.Kind = OwnerKind /\ ref.APIVersion.Group = EmptyStr
        returns(ref) ==
            \/ ~ref.APIVersion.parses
            \/ ~GVKForObject(o)
            \/ match(ref) /\ ref.APIVersion.Version # <<"v1">>
        reached == {i \in 1..Len(refs) : \A j \in 1..i : ~returns(refs[j])}
        traceId == AnnValue(o, TraceIDAnnotation)
        spanId == AnnValue(o, SpanIDAnnotation)
        both == traceId # EmptyStr /\ spanId # EmptyStr
    IN {[NamespacedName |->
             Key(IF e.rootScoped THEN EmptyStr ELSE o.key.Namespace, refs[i].Name),
         TraceID |-> IF both THEN traceId ELSE EmptyStr,
         SpanID |-> IF both THEN spanId ELSE EmptyStr,
         EventKind |-> eventKind,
         SenderName |-> o.key.Name,
         SenderKind |-> <<o.kind>>] : i \in {j \in reached : match(refs[j])}}

\* the handler ran: reqs is its map of records, enq the requests it added
Mapped(by, reqs) ==
    [phase |-> "mapped", by |-> by, e |-> ev.e, old |-> ev.old, new |-> ev.new,
     reqs |-> reqs, enq |-> {requestWithTraceIDToRequest(r) : r \in reqs}]

\* enqueueRequestForOwner.Create
OwnerCreate ==
    /\ ev.phase = "event"
    /\ ev' = Mapped("Create", getOwnerReconcileRequest(ev.e, ev.new, "new"))
    /\ queue' = queue \cup ev'.enq
    /\ UNCHANGED <<sysVars, codec, cache>>

\* enqueueRequestForOwner.Update
OwnerUpdate ==
    /\ ev.phase = "event"
    /\ ev' = Mapped("Update", getOwnerReconcileRequest(ev.e, ev.old, "old")
                                  \cup getOwnerReconcileRequest(ev.e, ev.new, "new"))
    /\ queue' = queue \cup ev'.enq
    /\ UNCHANGED <<sysVars, codec, cache>>

\* enqueueRequestForOwner.Delete
OwnerDelete ==
    /\ ev.phase = "event"
    /\ ev' = Mapped("Delete", getOwnerReconcileRequest(ev.e, ev.new, "new"))
    /\ queue' = queue \cup ev'.enq
    /\ UNCHANGED <<sysVars, codec, cache>>

\* enqueueRequestForOwner.Generic
OwnerGeneric ==
    /\ ev.phase = "event"
    /\ ev' = Mapped("Generic", getOwnerReconcileRequest(ev.e, ev.new, "new"))
    /\ queue' = queue \cup ev'.enq
    /\ UNCHANGED <<sysVars, codec, cache>>

\* an event on a child arrives, with its old and new state, at a handler
InitMapper ==
    /\ InitSys
    /\ InitWatch
    /\ codec = Idle
    /\ \E kind \in Kinds :
        ev \in {[phase |-> "event", e |-> e, old |-> old, new |-> new] :
                  e \in OwnerHandlers,
                  old \in ChildObjects(kind), new \in ChildObjects(kind)}

NextMapper == OwnerCreate \/ OwnerUpdate \/ OwnerDelete \/ OwnerGeneric

SpecMapper == InitMapper /\ [][NextMapper]_vars

----------------------------------------------------------------------------
(* The hand-off from a child's write to its owner's reconcile: a child is
   written through the interceptor, the watch delivers the event to an owner
   handler, and the owner's reconciler starts its trace from the request *)

\* the child a reconcile is about to create: no marker yet, owned by the
\* object stored under PodKey
HandoffChild ==
    ChildObject("Pod", EmptyStr, EmptyStr,
                <<OwnerReference(TRUE, EmptyStr, <<"v1">>, OwnerKind, PodName, TRUE)>>)

\* tracingClient.Create of the child by worker w; what reaches the watch is
\* the event with the child as it was handed to the store
ChildWrite(w) ==
    /\ CanStart(w)
    /\ ev.phase = "idle"
    /\ LET sc == startSpanFromContext(ctx[w], HandoffChild, nextId)
           stamped == addTraceIDAnnotation(sc, HandoffChild)
       IN /\ last' = [last EXCEPT ![w] =
                          Call("Create", "none", sc, stamped, NoKey, NoKey, stamped.kind)]
          /\ \E e \in OwnerHandlers :
                ev' = [phase |-> "event", e |-> e, old |-> HandoffChild, new |-> stamped]
    /\ nextId' = nextId + 1
    /\ UNCHANGED <<store, ctx, obj, pc, loc, codec, watchVars>>

\* the owner is stored with any markers, or is not stored; worker w1 is in a
\* reconcile with or without an ambient span, worker w2 is idle
InitHandoff ==
    /\ \/ store = [k \in Keys |-> NotFound]
       \/ \E ct \in MarkerValues(TraceAtom(1)), cs \in MarkerValues(SpanAtom(1)),
             at \in MarkerValues(TraceAtom(2)), as \in MarkerValues(SpanAtom(2)) :
            store = [k \in Keys |-> OfKind("ConfigMap", MarkedObject(ct, cs, at, as))]
    /\ nextId = 3
    /\ ctx \in {[w \in Workers |-> IF w = "w1" THEN c ELSE NoSpan] :
                   c \in {NoSpan, [trace |-> KeyTrace, span |-> KeySpan]}}
    /\ obj = [w \in Workers |-> NoObj]
    /\ pc = [w \in Workers |-> "run"]
    /\ loc = [w \in Workers |-> NoLoc]
    /\ last = [w \in Workers |-> NoCall]
    /\ InitWatch
    /\ codec = Idle
    /\ ev = Idle

NextHandoff ==
    \/ ChildWrite("w1")
    \/ OwnerCreate
    \/ OwnerUpdate
    \/ OwnerDelete
    \/ OwnerGeneric
    \/ \E key \in queue : StartTrace("w2", key, "ConfigMap")

SpecHandoff == InitHandoff /\ [][NextHandoff]_vars

\* the keys the handler enqueued for the child as it was written
WrittenKeys ==
    IF ev.phase # "mapped" THEN {}
    ELSE {requestWithTraceIDToRequest(r) :
             r \in getOwnerReconcileRequest(ev.e, ev.new, "new")}

\* C32: trace context survives the hand-off between reconciles: when a child
\* was written through the interceptor under trace T, so that it carries the
\* annotations T and S, and the owner handler has turned the event into a
\* request, StartTrace with that request's key and no ambient span reads the
\* owner under its real name and returns a span whose trace id is T.
C32_HandoffKeepsTrace ==
    [][\A w \in Workers :
        (/\ Did(w, "StartTrace")
         /\ ~IsValid(ctx[w])
         /\ last'[w].arg \in WrittenKeys
         /\ HasAnn(ev.new, TraceIDAnnotation)
         /\ HasAnn(ev.new, SpanIDAnnotation))
        => /\ last'[w].read.Name = PodName
           /\ IDString(last'[w].span.trace) = ev.new.ann[TraceIDAnnotation]]_vars

\* the record with its EventKind put aside
WithoutEventKind(r) == [r EXCEPT !.EventKind = "new"]

\* no field of the record holds the separator
RecordNoSep(r) ==
    /\ NoSep(r.TraceID) /\ NoSep(r.SpanID)
    /\ NoSep(r.SenderKind) /\ NoSep(r.SenderName)
    /\ NoSep(r.NamespacedName.Name)

\* C17, as stated: the mapper enqueues one request per record of its map, so
\* two records collapse into one enqueued request only if they match in every
\* field; the old-derived and the new-derived record of an Update that reach
\* the same owner are both enqueued.
C17_NoCollapse ==
    ev.phase = "mapped"
    => /\ ev.enq \subseteq queue
       /\ Cardinality(ev.enq) = Cardinality(ev.reqs)

\* C17, amended: the handler enqueues one request per record of its map up to
\* EventKind: two records whose fields hold no separator collapse into one
\* enqueued request exactly when they match in every field other than
\* EventKind, so the old-derived and the new-derived record of an Update that
\* reach the same owner are enqueued as two requests when the old and the new
\* state carry different markers and as one when they carry the same.
C17_CollapseUpToEventKind ==
    ev.phase = "mapped"
    => /\ ev.enq \subseteq queue
       /\ (\A r \in ev.reqs : RecordNoSep(r))
          => Cardinality(ev.enq) = Cardinality({WithoutEventKind(r) : r \in ev.reqs})

\* an Update whose old and new state reach the same owner under different
\* markers has enqueued two requests for it
C17_Witness ==
    /\ ev.phase = "mapped"
    /\ ev.by = "Update"
    /\ \A r \in ev.reqs : RecordNoSep(r)
    /\ \E r1, r2 \in ev.reqs :
        /\ r1.EventKind = "old" /\ r2.EventKind = "new"
        /\ r1.NamespacedName = r2.NamespacedName
        /\ r1.TraceID # EmptyStr /\ r2.TraceID # EmptyStr
        /\ r1.TraceID # r2.TraceID
    /\ Cardinality(ev.enq) = 2
    /\ ev.enq \subseteq queue

\* the objects the callback that ran was given
EventObjects == IF ev.by = "Update" THEN {ev.old, ev.new} ELSE {ev.new}

\* the reference is of the handler's owner type: same API group, same kind
OfOwnerType(ref) ==
    /\ ref.APIVersion.parses
    /\ ref.APIVersion.Group = EmptyStr
    /\ ref.Kind = OwnerKind

\* the references of o the handler looks at: in controller-only mode the
\* controller reference alone, otherwise all of them
Considered(e, o) ==
    IF ~e.isController THEN {o.owners[i] : i \in 1..Len(o.owners)}
    ELSE {o.owners[i] : i \in {j \in 1..Len(o.owners) :
                                 /\ o.owners[j].Controller
                                 /\ \A k \in 1..(j - 1) : ~o.owners[k].Controller}}

\* the names a request for the owner that ref names may bear
RequestNames(o, ref) ==
    {ref.Name,
     Sprintf5(AnnValue(o, TraceIDAnnotation), AnnValue(o, SpanIDAnnotation),
              <<o.kind>>, o.key.Name, ref.Name)}

\* every reference of o is well formed and of a version the RESTMapper maps
WellFormed(o) ==
    \A i \in 1..Len(o.owners) :
        o.owners[i].APIVersion.parses /\ o.owners[i].APIVersion.Version = <<"v1">>

\* C27: whichever callback ran (Create, Update, Delete, Generic), every
\* request enqueued is for an owner reference of the handler's API group and
\* kind, taken in controller-only mode from the controller reference alone
\* and otherwise from all references; an object without such a reference
\* enqueues nothing, and every such reference of a well-formed list on an
\* object whose kind resolves has its request.
C27_OnlyMatchingOwners ==
    ev.phase = "mapped" =>
        /\ \A q \in ev.enq :
              \E o \in EventObjects : \E ref \in Considered(ev.e, o) :
                  OfOwnerType(ref) /\ q.Name \in RequestNames(o, ref)
        /\ (\A o \in EventObjects : \A i \in 1..Len(o.owners) :
                ~OfOwnerType(o.owners[i]))
           => ev.enq = {}
        /\ \A o \in EventObjects :
              (GVKForObject(o) /\ WellFormed(o))
              => \A ref \in Considered(ev.e, o) :
                    OfOwnerType(ref)
                    => \E q \in ev.enq : q.Name \in RequestNames(o, ref)
        /\ ev.enq \subseteq queue

\* a Delete in controller-only mode, on a child that carries a reference of
\* another kind, the controller reference and a third of the owner type, has
\* enqueued the controller owner alone
C27_Witness ==
    /\ ev.phase = "mapped"
    /\ ev.by = "Delete"
    /\ ev.e.isController
    /\ Len(ev.new.owners) = 3
    /\ \E i \in 1..3 : ~ev.new.owners[i].Controller /\ OfOwnerType(ev.new.owners[i])
    /\ Cardinality(ev.enq) = 1
    /\ \A q \in ev.enq : q.Name \in RequestNames(ev.new, OwnerReferences.ctl)

\* the reference can be processed and is of the handler's owner type: its
\* APIVersion parses and the RESTMapper maps its version
Processable(ref) == OfOwnerType(ref) /\ ref.APIVersion.Version = <<"v1">>

\* C38: an owner reference that cannot be processed (its APIVersion does not
\* parse, or the RESTMapper has no mapping for it) does not keep the handler
\* from enqueueing a request for every other reference it looks at that is of
\* the owner type, whatever the order of the references.
C38_UnprocessableReferenceSkipped ==
    ev.phase = "mapped" =>
        \A o \in EventObjects :
            GVKForObject(o)
            => \A ref \in Considered(ev.e, o) :
                  Processable(ref)
                  => \E q \in ev.enq : q.Name \in RequestNames(o, ref)

\* C28: an enqueued request bears the name
\* traceId;spanId;childKind;childName;ownerName when the child has both a
\* non-empty trace-id and a non-empty span-id annotation, and the plain owner
\* name when either is missing or empty; its namespace is the child's, or
\* empty when the owner type is cluster-scoped.
C28_RequestNameAndNamespace ==
    ev.phase = "mapped" =>
        \A q \in ev.enq :
            \E o \in EventObjects : \E i \in 1..Len(o.owners) :
                LET traceId == AnnValue(o, TraceIDAnnotation)
                    spanId == AnnValue(o, SpanIDAnnotation)
                    owner == o.owners[i].Name
                IN /\ q.Namespace = IF ev.e.rootScoped THEN EmptyStr
                                    ELSE o.key.Namespace
                   /\ q.Name = IF traceId # EmptyStr /\ spanId # EmptyStr
                               THEN traceId \o <<SEP>> \o spanId \o <<SEP>>
                                        \o <<o.kind>> \o <<SEP>> \o o.key.Name
                                        \o <<SEP>> \o owner
                               ELSE owner

\* a Create on a child with both annotations, for a cluster-scoped owner
\* type, has enqueued a composite name without namespace
C28_Witness ==
    /\ ev.phase = "mapped"
    /\ ev.by = "Create"
    /\ ev.e.rootScoped
    /\ AnnValue(ev.new, TraceIDAnnotation) = <<"ta">>
    /\ AnnValue(ev.new, SpanIDAnnotation) = <<"sa">>
    /\ ev.new.key.Namespace # EmptyStr
    /\ \E q \in ev.enq :
         /\ q.Namespace = EmptyStr
         /\ Len(Split(q.Name)) = 5
         /\ Split(q.Name)[5] = <<"owner">>

----------------------------------------------------------------------------
(* The change-filter predicate: unstructured content *)

\* the values of an unstructured tree (map[string]interface{} and below)
JNil == [k |-> "nil"]
JStr(x) == [k |-> "str", s |-> x]
JNum(n) == [k |-> "num", n |-> n]
JMap(f) == [k |-> "map", f |-> f]
JList(q) == [k |-> "list", q |-> q]

NoFields == [x \in {} |-> JNil]

\* len(elemMap) = 0
IsEmptyMap(v) == v.k = "map" /\ DOMAIN v.f = {}

\* replaceEmptyStructsAndSlicesWithNil, as the map it leaves behind
RECURSIVE replaceEmptyStructsAndSlicesWithNil(_)
replaceEmptyStructsAndSlicesWithNil(m) ==
    [key \in DOMAIN m |->
        LET val == m[key]
        IN IF val.k = "map"
           THEN IF DOMAIN val.f = {} THEN JNil
                ELSE JMap(replaceEmptyStructsAndSlicesWithNil(val.f))
           ELSE IF val.k = "list"
           THEN IF Len(val.q) = 0 THEN JNil
                ELSE LET elems == [i \in 1..Len(val.q) |->
                                      IF val.q[i].k = "map"
                                      THEN JMap(replaceEmptyStructsAndSlicesWithNil(val.q[i].f))
                                      ELSE val.q[i]]
                     IN IF \A i \in 1..Len(elems) : IsEmptyMap(elems[i])
                        THEN JNil
                        ELSE JList(elems)
           ELSE val]

\* unstructured.NestedFieldNoCopy(obj, field): the value and whether it is there
NestedFieldNoCopy(m, field) ==
    IF field \in DOMAIN m THEN [val |-> m[field], found |-> TRUE]
    ELSE [val |-> JNil, found |-> FALSE]

\* unstructuredNestedFieldNoCopy
unstructuredNestedFieldNoCopy(m, field) == NestedFieldNoCopy(m, field)

\* equality.Semantic.DeepEqual on two interface{} values of a tree
RECURSIVE SemanticDeepEqual(_, _)
SemanticDeepEqual(a, b) ==
    IF a.k = "nil" \/ b.k = "nil" THEN a.k = b.k
    ELSE IF a.k # b.k THEN FALSE
    ELSE IF a.k = "str" THEN a.s = b.s
    ELSE IF a.k = "num" THEN a.n = b.n
    ELSE IF a.k = "map"
    THEN /\ DOMAIN a.f = DOMAIN b.f
         /\ \A key \in DOMAIN a.f : SemanticDeepEqual(a.f[key], b.f[key])
    ELSE /\ Len(a.q) = Len(b.q)
         /\ \A i \in 1..Len(a.q) : SemanticDeepEqual(a.q[i], b.q[i])

\* unstructured.NestedString(conditionMap, "type"): "" unless a string is there
ConditionType(c) ==
    IF "type" \in DOMAIN c.f /\ c.f["type"].k = "str" THEN c.f["type"].s ELSE EmptyStr

\* removeTraceAndSpanConditions, as the status map it leaves behind
removeTraceAndSpanConditions(statusMap) ==
    IF "conditions" \notin DOMAIN statusMap THEN statusMap
    ELSE IF statusMap["conditions"].k # "list" THEN statusMap
    ELSE LET conditions == statusMap["conditions"].q
             filteredConditions ==
                 SelectSeq(conditions,
                           LAMBDA c : /\ c.k = "map"
                                      /\ ConditionType(c) # <<"TraceID">>
                                      /\ ConditionType(c) # <<"SpanID">>)
         IN [statusMap EXCEPT !["conditions"] = JList(filteredConditions)]

\* getFieldExcludingObservedGeneration
getFieldExcludingObservedGeneration(m, field) ==
    LET r == NestedFieldNoCopy(m, field)
    IN IF ~r.found THEN JNil
       ELSE IF r.val.k = "map"
       THEN JMap(removeTraceAndSpanConditions(
                    [key \in DOMAIN r.val.f \ {"observedGeneration"} |-> r.val.f[key]]))
       ELSE r.val

\* hasFieldChanged taking a field found on one side only as unchanged
hasFieldChangedIgnoringAbsence(oldUnstructured, newUnstructured, field) ==
    LET o == unstructuredNestedFieldNoCopy(oldUnstructured, field)
        n == unstructuredNestedFieldNoCopy(newUnstructured, field)
    IN IF o.found # n.found THEN FALSE
       ELSE ~SemanticDeepEqual(o.val, n.val)

\* hasFieldChanged
hasFieldChanged(oldUnstructured, newUnstructured, field) ==
    LET o == unstructuredNestedFieldNoCopy(oldUnstructured, field)
        n == unstructuredNestedFieldNoCopy(newUnstructured, field)
    IN IF o.found # n.found THEN TRUE
       ELSE ~SemanticDeepEqual(o.val, n.val)

\* objToUnstructured of a generic object: a copy of its content
objToUnstructured(o) == o.content

\* hasSpecOrStatusChanged
hasSpecOrStatusChanged(oldObj, newObj) ==
    LET oldUnstructured == replaceEmptyStructsAndSlicesWithNil(objToUnstructured(oldObj))
        newUnstructured == replaceEmptyStructsAndSlicesWithNil(objToUnstructured(newObj))
        oldStatus == getFieldExcludingObservedGeneration(oldUnstructured, "status")
        newStatus == getFieldExcludingObservedGeneration(newUnstructured, "status")
    IN \/ hasFieldChanged(oldUnstructured, newUnstructured, "spec")
       \/ ~SemanticDeepEqual(oldStatus, newStatus)

\* equalExcept that ignores no key
equalExceptNothing(a, b, keysToIgnore) ==
    /\ \A key \in DOMAIN a : key \in DOMAIN b /\ a[key] = b[key]
    /\ DOMAIN b \subseteq DOMAIN a

\* equalExcept: its two loops
equalExcept(a, b, keysToIgnore) ==
    /\ \A key \in DOMAIN a \ keysToIgnore : key \in DOMAIN b /\ a[key] = b[key]
    /\ \A key \in DOMAIN b \ DOMAIN a : key \in keysToIgnore

\* m[key] on a Go map of strings
Lookup(m, key) == IF key \in DOMAIN m THEN m[key] ELSE EmptyStr

\* Update without the generation among the changes it suppresses
PredicateUpdateNoGeneration(ObjectOld, ObjectNew) ==
    IF ~ObjectOld.present \/ ~ObjectNew.present THEN TRUE
    ELSE IF /\ \/ Lookup(ObjectOld.ann, TraceIDAnnotation)
                     # Lookup(ObjectNew.ann, TraceIDAnnotation)
               \/ Lookup(ObjectOld.ann, SpanIDAnnotation)
                     # Lookup(ObjectNew.ann, SpanIDAnnotation)
               \/ ObjectOld.rv # ObjectNew.rv
            /\ equalExcept(ObjectOld.ann, ObjectNew.ann,
                           {TraceIDAnnotation, SpanIDAnnotation})
            /\ ~hasSpecOrStatusChanged(ObjectOld, ObjectNew)
    THEN FALSE
    ELSE TRUE

\* Update that suppresses the event when one of its sides is nil
PredicateUpdateFailClosed(ObjectOld, ObjectNew) ==
    IF ~ObjectOld.present \/ ~ObjectNew.present THEN FALSE
    ELSE ~(/\ \/ Lookup(ObjectOld.ann, TraceIDAnnotation)
                    # Lookup(ObjectNew.ann, TraceIDAnnotation)
              \/ Lookup(ObjectOld.ann, SpanIDAnnotation)
                    # Lookup(ObjectNew.ann, SpanIDAnnotation)
              \/ ObjectOld.rv # ObjectNew.rv
              \/ ObjectOld.gen # ObjectNew.gen
           /\ equalExcept(ObjectOld.ann, ObjectNew.ann,
                          {TraceIDAnnotation, SpanIDAnnotation})
           /\ ~hasSpecOrStatusChanged(ObjectOld, ObjectNew))

\* Update comparing the whole objects once the trace annotations and the
\* resource version are taken out of both
PredicateUpdateDeepEqual(ObjectOld, ObjectNew) ==
    IF ~ObjectOld.present \/ ~ObjectNew.present THEN TRUE
    ELSE LET strip(o) ==
                 [o EXCEPT !.rv = EmptyStr,
                           !.ann = [key \in DOMAIN o.ann
                                        \ {TraceIDAnnotation, SpanIDAnnotation} |->
                                            o.ann[key]]]
         IN strip(ObjectOld) # strip(ObjectNew)

\* IgnoreTraceAnnotationUpdatePredicate.Update
PredicateUpdate(ObjectOld, ObjectNew) ==
    IF ~ObjectOld.present \/ ~ObjectNew.present THEN TRUE
    ELSE LET oldAnnotations == ObjectOld.ann
             newAnnotations == ObjectNew.ann
             traceIDChanged == Lookup(oldAnnotations, TraceIDAnnotation)
                                   # Lookup(newAnnotations, TraceIDAnnotation)
             spanIDChanged == Lookup(oldAnnotations, SpanIDAnnotation)
                                  # Lookup(newAnnotations, SpanIDAnnotation)
             resourceGenerationChanged == ObjectOld.gen # ObjectNew.gen
             resourceVersionChanged == ObjectOld.rv # ObjectNew.rv
             otherAnnotationsChanged ==
                 ~equalExcept(oldAnnotations, newAnnotations,
                              {TraceIDAnnotation, SpanIDAnnotation})
             specOrStatusChanged == hasSpecOrStatusChanged(ObjectOld, ObjectNew)
         IN IF /\ \/ traceIDChanged
                  \/ spanIDChanged
                  \/ resourceVersionChanged
                  \/ resourceGenerationChanged
               /\ ~otherAnnotationsChanged
               /\ ~specOrStatusChanged
            THEN FALSE
            ELSE TRUE

----------------------------------------------------------------------------
(* The change-filter predicate: the update events it is given *)

\* all maps that give some of the keys of choice a value from choice[key]
PartialMaps(choice) ==
    UNION {{f \in [D -> UNION {choice[key] : key \in D}] :
               \A key \in D : f[key] \in choice[key]} : D \in SUBSET DOMAIN choice}

JCondition(type, message) ==
    JMap([key \in {"type", "message"} |->
             IF key = "type" THEN JStr(<<type>>) ELSE JStr(<<message>>)])

JContainer(name) == JMap([key \in {"name"} |-> JStr(<<name>>)])

SpecValues ==
    {JNil} \cup
    {JMap(f) : f \in PartialMaps(
        [key \in {"replicas", "containers"} |->
            IF key = "replicas" THEN {JNum(1), JNum(2)}
            ELSE {JNil, JMap(NoFields), JList(<<>>), JList(<<JMap(NoFields)>>),
                  JList(<<JContainer("a")>>), JList(<<JContainer("b")>>)}])}

StatusValues ==
    {JNil} \cup
    {JMap(f) : f \in PartialMaps(
        [key \in {"observedGeneration", "phase", "conditions"} |->
            IF key = "observedGeneration" THEN {JNum(1), JNum(2)}
            ELSE IF key = "phase" THEN {JStr(<<"Pending">>), JStr(<<"Running">>)}
            ELSE {JNil, JList(<<>>),
                  JList(<<JCondition("Ready", "a")>>),
                  JList(<<JCondition("Ready", "b")>>),
                  JList(<<JCondition("TraceID", "t1")>>),
                  JList(<<JCondition("TraceID", "t2")>>),
                  JList(<<JCondition("Ready", "a"), JCondition("TraceID", "t1")>>),
                  JList(<<JCondition("TraceID", "t1"), JCondition("SpanID", "s1")>>)}])}

\* the content of an object: its spec and its status, each possibly absent
Contents(specs, statuses) ==
    PartialMaps([key \in {"spec", "status"} |->
                    IF key = "spec" THEN specs ELSE statuses])

AnnotationMaps ==
    PartialMaps(
        [key \in {TraceIDAnnotation, SpanIDAnnotation, "key1"} |->
            IF key = TraceIDAnnotation THEN {EmptyStr, <<"a">>, <<"b">>}
            ELSE IF key = SpanIDAnnotation THEN {<<"a">>, <<"b">>}
            ELSE {EmptyStr, <<"value1">>}])

ResourceVersions == {"old-resource-version", "new-resource-version"}

Generations == {1, 2}

\* the metadata of an object outside its annotations, resource version and
\* generation: labels, finalizers, owner references, deletion timestamp
Metadata ==
    [labels : {EmptyStr, <<"app">>}, finalizers : {EmptyStr, <<"keep">>},
     ownerReferences : {EmptyStr, <<"owner">>}, deletionTimestamp : {0, 1}]

NoMetadata ==
    [labels |-> EmptyStr, finalizers |-> EmptyStr, ownerReferences |-> EmptyStr,
     deletionTimestamp |-> 0]

EventObject(ann, rv, gen, content) ==
    [present |-> TRUE, ann |-> ann, rv |-> rv, gen |-> gen, content |-> content,
     meta |-> NoMetadata]

\* a nil ObjectOld or ObjectNew
NilObject == [present |-> FALSE]

PlainSpec == JMap([key \in {"replicas"} |-> JNum(1)])

PlainStatus == JMap([key \in {"phase"} |-> JStr(<<"Pending">>)])

PlainContent ==
    [key \in {"spec", "status"} |-> IF key = "spec" THEN PlainSpec ELSE PlainStatus]

\* objects whose metadata varies over one content
MetadataObjects ==
    {EventObject(ann, rv, gen, PlainContent) :
        ann \in AnnotationMaps, rv \in ResourceVersions, gen \in Generations}

TracedAnnotations ==
    {a \in AnnotationMaps :
        /\ DOMAIN a = {TraceIDAnnotation, SpanIDAnnotation}
        /\ a[SpanIDAnnotation] = <<"a">>
        /\ a[TraceIDAnnotation] # EmptyStr}

\* objects whose spec varies, absent included, under a few metadata
SpecObjects ==
    {EventObject(ann, rv, 1, content) :
        ann \in TracedAnnotations, rv \in ResourceVersions,
        content \in {c \in Contents(SpecValues, {PlainStatus}) : "status" \in DOMAIN c}}

\* objects whose status varies, absent included, under a few metadata
StatusObjects ==
    {EventObject(ann, rv, gen, content) :
        ann \in TracedAnnotations, rv \in ResourceVersions, gen \in Generations,
        content \in {c \in Contents({PlainSpec}, StatusValues) : "spec" \in DOMAIN c}}

\* objects whose labels, finalizers, owner references and deletion timestamp
\* vary, under a few annotations and resource versions
LabelledObjects ==
    {[EventObject(ann, rv, 1, PlainContent) EXCEPT !.meta = m] :
        ann \in TracedAnnotations, rv \in ResourceVersions, m \in Metadata}

\* the object before the update, in the pairs whose content varies
IsOldSide(o) ==
    /\ o.rv = "old-resource-version"
    /\ o.ann[TraceIDAnnotation] = <<"a">>
    /\ o.gen = 1

\* the update events: both sides from the same family, or one side nil
UpdateEvents ==
    (MetadataObjects \X MetadataObjects)
        \cup {pair \in SpecObjects \X SpecObjects : IsOldSide(pair[1])}
        \cup {pair \in StatusObjects \X StatusObjects : IsOldSide(pair[1])}
        \cup (LabelledObjects \X LabelledObjects)
        \cup {<<NilObject, EventObject(NoFields, "new-resource-version", 1, NoFields)>>,
              <<EventObject(NoFields, "old-resource-version", 1, NoFields), NilObject>>,
              <<NilObject, NilObject>>}

\* the event source delivers an update event and the predicate decides on it
Evaluate ==
    /\ ev.phase = "event"
    /\ ev' = [phase |-> "verdict", old |-> ev.old, new |-> ev.new,
              forward |-> PredicateUpdate(ev.old, ev.new)]
    /\ UNCHANGED <<sysVars, codec, watchVars>>

InitPredicate ==
    /\ InitSys
    /\ InitWatch
    /\ codec = Idle
    /\ ev \in {[phase |-> "event", old |-> pair[1], new |-> pair[2]] :
                  pair \in UpdateEvents}

NextPredicate == Evaluate

SpecPredicate == InitPredicate /\ [][NextPredicate]_vars

----------------------------------------------------------------------------
(* Properties of the change-filter predicate *)

\* the predicate has decided on an event with both sides present
Decided == ev.phase = "verdict" /\ ev.old.present /\ ev.new.present

\* the entry of key differs: added, removed or changed
EntryDiffers(a, b, key) ==
    \/ (key \in DOMAIN a) # (key \in DOMAIN b)
    \/ key \in DOMAIN a /\ key \in DOMAIN b /\ a[key] # b[key]

\* the value read under key differs, an absent entry reading as ""
ValueDiffers(a, b, key) == Lookup(a, key) # Lookup(b, key)

OtherAnnotationsDiffer(a, b) ==
    \E key \in (DOMAIN a \cup DOMAIN b) \ {TraceIDAnnotation, SpanIDAnnotation} :
        EntryDiffers(a, b, key)

\* a tree with everything empty taken out of it: an empty or nil map entry is
\* an absent one, a list of nothing but empty elements is an absent list
RECURSIVE Canon(_)
Canon(v) ==
    IF v.k = "map"
    THEN LET g == [key \in DOMAIN v.f |-> Canon(v.f[key])]
             keep == {key \in DOMAIN v.f : g[key].k # "nil"}
         IN IF keep = {} THEN JNil ELSE JMap([key \in keep |-> g[key]])
    ELSE IF v.k = "list"
    THEN LET q == [i \in 1..Len(v.q) |-> Canon(v.q[i])]
         IN IF \A i \in 1..Len(q) : q[i].k = "nil" THEN JNil ELSE JList(q)
    ELSE v

FieldOf(o, field) == IF field \in DOMAIN o.content THEN o.content[field] ELSE JNil

IsMarkerCondition(c) ==
    c.k = "map" /\ ConditionType(c) \in {<<"TraceID">>, <<"SpanID">>}

\* a status without observedGeneration and without TraceID and SpanID conditions
StatusProper(v) ==
    IF v.k # "map" THEN v
    ELSE JMap([key \in DOMAIN v.f \ {"observedGeneration"} |->
                  IF key = "conditions" /\ v.f[key].k = "list"
                  THEN JList(SelectSeq(v.f[key].q, LAMBDA c : ~IsMarkerCondition(c)))
                  ELSE v.f[key]])

SpecDiffers(old, new) == Canon(FieldOf(old, "spec")) # Canon(FieldOf(new, "spec"))

StatusDiffers(old, new) ==
    Canon(StatusProper(FieldOf(old, "status"))) # Canon(StatusProper(FieldOf(new, "status")))

\* everything but the trace markers and the resource version is the same
NothingElseDiffers(old, new) ==
    /\ ~OtherAnnotationsDiffer(old.ann, new.ann)
    /\ old.content = new.content
    /\ old.gen = new.gen

\* C6, as stated: Update returns false for every pair that differs in the
\* trace-id annotation, the span-id annotation or the resource version, and in
\* nothing else.
C6_SuppressesMarkerOnlyChange ==
    (/\ Decided
     /\ \/ EntryDiffers(ev.old.ann, ev.new.ann, TraceIDAnnotation)
        \/ EntryDiffers(ev.old.ann, ev.new.ann, SpanIDAnnotation)
        \/ ev.old.rv # ev.new.rv
     /\ NothingElseDiffers(ev.old, ev.new))
    => ev.forward = FALSE

\* C6, amended: Update returns false for every pair that differs in the value
\* of the trace-id annotation or of the span-id annotation, an absent
\* annotation counting as the empty string, or in the resource version, and in
\* nothing else.
C6_SuppressesMarkerValueChange ==
    (/\ Decided
     /\ \/ ValueDiffers(ev.old.ann, ev.new.ann, TraceIDAnnotation)
        \/ ValueDiffers(ev.old.ann, ev.new.ann, SpanIDAnnotation)
        \/ ev.old.rv # ev.new.rv
     /\ NothingElseDiffers(ev.old, ev.new))
    => ev.forward = FALSE

\* an event that changed the trace id and the resource version only was
\* suppressed
C6_Witness ==
    /\ Decided
    /\ ValueDiffers(ev.old.ann, ev.new.ann, TraceIDAnnotation)
    /\ ev.old.rv # ev.new.rv
    /\ "key1" \in DOMAIN ev.old.ann
    /\ NothingElseDiffers(ev.old, ev.new)
    /\ ev.forward = FALSE

\* C7: Update returns true for every pair in which another annotation was
\* added, removed or changed, or the spec differs, or the status differs
\* outside observedGeneration and the TraceID and SpanID conditions, whatever
\* happened to the trace markers and the resource version.
C7_ForwardsRealChange ==
    (/\ Decided
     /\ \/ OtherAnnotationsDiffer(ev.old.ann, ev.new.ann)
        \/ SpecDiffers(ev.old, ev.new)
        \/ StatusDiffers(ev.old, ev.new))
    => ev.forward = TRUE

\* an event that changed the trace id, the resource version and a status
\* field was forwarded
C7_Witness ==
    /\ Decided
    /\ ValueDiffers(ev.old.ann, ev.new.ann, TraceIDAnnotation)
    /\ ev.old.rv # ev.new.rv
    /\ StatusDiffers(ev.old, ev.new)
    /\ ~SpecDiffers(ev.old, ev.new)
    /\ ~OtherAnnotationsDiffer(ev.old.ann, ev.new.ann)
    /\ ev.forward = TRUE

C39_OtherMetadataNotAChange ==
    (/\ Decided
     /\ ev.old.rv # ev.new.rv
     /\ [ev.old EXCEPT !.rv = ev.new.rv, !.meta = ev.new.meta] = ev.new)
    => ev.forward = FALSE

\* an event that set the deletion timestamp, dropped the one finalizer and
\* moved the resource version was suppressed
C39_Witness ==
    /\ Decided
    /\ ev.old.rv # ev.new.rv
    /\ ev.old.meta.deletionTimestamp = 0 /\ ev.new.meta.deletionTimestamp = 1
    /\ ev.old.meta.finalizers # EmptyStr /\ ev.new.meta.finalizers = EmptyStr
    /\ [ev.old EXCEPT !.rv = ev.new.rv, !.meta = ev.new.meta] = ev.new
    /\ ev.forward = FALSE

\* C23: Update fails open: when the old or the new object of the event is
\* absent it returns true, whatever the other side holds.
C23_FailsOpen ==
    (ev.phase = "verdict" /\ (~ev.old.present \/ ~ev.new.present))
    => ev.forward = TRUE

\* an event without its old object, its new object carrying a resource
\* version of its own, was forwarded
C23_Witness ==
    /\ ev.phase = "verdict"
    /\ ~ev.old.present
    /\ ev.new.present
    /\ ev.forward = TRUE

\* a tree in which an empty map or list is an absent value: a map keeps the
\* entries that hold something, and is nothing when none does; a list with no
\* element is nothing
RECURSIVE Collapsed(_)
Collapsed(v) ==
    IF v.k = "map"
    THEN LET g == [key \in DOMAIN v.f |-> Collapsed(v.f[key])]
             keep == {key \in DOMAIN v.f : g[key].k # "nil"}
         IN IF keep = {} THEN JNil ELSE JMap([key \in keep |-> g[key]])
    ELSE IF v.k = "list"
    THEN IF Len(v.q) = 0 THEN JNil
         ELSE JList([i \in 1..Len(v.q) |-> Collapsed(v.q[i])])
    ELSE v

\* C24: an empty map or list, at any depth of spec or status, is equal to an
\* absent value: a pair whose spec and status differ only in that one side
\* has an empty map or list where the other has the field absent or nil is
\* not counted as a spec or status change.
C24_EmptyEqualsAbsent ==
    (/\ Decided
     /\ Collapsed(FieldOf(ev.old, "spec")) = Collapsed(FieldOf(ev.new, "spec"))
     /\ Collapsed(FieldOf(ev.old, "status")) = Collapsed(FieldOf(ev.new, "status")))
    => ~hasSpecOrStatusChanged(ev.old, ev.new)

\* the content of an object without status.observedGeneration
WithoutObservedGeneration(content) ==
    [key \in DOMAIN content |->
        IF key = "status" /\ content[key].k = "map"
        THEN JMap([f \in DOMAIN content[key].f \ {"observedGeneration"} |->
                      content[key].f[f]])
        ELSE content[key]]

\* C25: Update returns false when old and new differ only in
\* metadata.generation and/or status.observedGeneration, possibly together
\* with the resource version.
C25_GenerationNotAChange ==
    (/\ Decided
     /\ \/ ev.old.gen # ev.new.gen
        \/ ev.old.content # ev.new.content
     /\ ev.old.ann = ev.new.ann
     /\ WithoutObservedGeneration(ev.old.content)
            = WithoutObservedGeneration(ev.new.content))
    => ev.forward = FALSE

\* the content of an object without the TraceID and SpanID entries of
\* status.conditions; a list that held nothing but such entries goes with them
WithoutMarkerConditions(content) ==
    IF "status" \notin DOMAIN content \/ content["status"].k # "map" THEN content
    ELSE LET st == content["status"].f
             held == "conditions" \in DOMAIN st /\ st["conditions"].k = "list"
             rest == IF held
                     THEN SelectSeq(st["conditions"].q, LAMBDA c : ~IsMarkerCondition(c))
                     ELSE <<>>
             gone == held /\ Len(st["conditions"].q) > 0 /\ Len(rest) = 0
         IN [content EXCEPT !["status"] =
                JMap([f \in DOMAIN st \ (IF gone THEN {"conditions"} ELSE {}) |->
                         IF f = "conditions" /\ held THEN JList(rest) ELSE st[f]])]

\* C26: Update returns false when old and new differ only in TraceID and
\* SpanID entries of status.conditions (added, removed or changed) and in the
\* resource version, also when those are the only entries of the list and when
\* the status holds nothing else.
C26_MarkerConditionsNotAChange ==
    (/\ Decided
     /\ ev.old.rv # ev.new.rv
     /\ ev.old.ann = ev.new.ann
     /\ ev.old.gen = ev.new.gen
     /\ ev.old.content # ev.new.content
     /\ WithoutMarkerConditions(ev.old.content)
            = WithoutMarkerConditions(ev.new.content))
    => ev.forward = FALSE

----------------------------------------------------------------------------
(* The reconcile loop: a controller that watches the object through the
   change-filter predicate and writes it through the interceptor *)

\* the object as the update event carries it: metadata, a spec nobody
\* touches, and the status with its conditions
AsEventObject(o) ==
    LET conditions ==
            [i \in 1..Len(o.conds) |->
                JMap([key \in {"type", "message"} |->
                         IF key = "type" THEN JStr(<<o.conds[i].type>>)
                         ELSE JStr(o.conds[i].msg)])]
        status == IF o.conds = <<>> THEN JMap(NoFields)
                  ELSE JMap([key \in {"conditions"} |-> JList(conditions)])
    IN EventObject(o.ann, o.rv, 1,
                   [key \in {"spec", "status"} |->
                       IF key = "spec" THEN PlainSpec ELSE status])

\* a condition the controller does not own
ReadyCondition == Condition("Ready", <<"True">>)

\* the conditions an earlier status write through the interceptor left
StampedConditions ==
    <<Condition("TraceID", IDString(KeyTrace)), Condition("SpanID", IDString(KeySpan))>>

\* the objects a loop may start on: created by a client outside the
\* interceptor or through it, with or without a condition of its own, with
\* or without the conditions of an earlier trace
LoopObjects ==
    {[NewObject(PodKey) EXCEPT !.rv = 1, !.ann = ann, !.conds = conds] :
        ann \in {EmptyAnn,
                 SetAnn(SetAnn(EmptyAnn, TraceIDAnnotation, IDString(KeyTrace)),
                        SpanIDAnnotation, IDString(KeySpan))},
        conds \in {<<>>, <<ReadyCondition>>, StampedConditions,
                   <<ReadyCondition>> \o StampedConditions}}

\* the worker took the request off the queue and Reconcile reads the object
ReconcileGet(w) ==
    /\ PodKey \in queue
    /\ CanStart(w)
    /\ last[w] = NoCall
    /\ queue' = queue \ {PodKey}
    /\ LET o == BlankObject
           sc == startSpanFromContext(ctx[w], o, nextId)
       IN Return(w, "Get", sc, NoObj, PodKey, PodKey, StoreGet(store, PodKey, o))
    /\ UNCHANGED <<ctx, pc, loc, codec, ev, cache>>

\* Reconcile writes the object it read, changing nothing of its own
ReconcileWrite(w) ==
    /\ last[w].op = "Get"
    /\ last[w].err = "none"
    /\ \/ Update(w)
       \/ Patch(w)
       \/ StatusUpdate(w)
       \/ StatusPatch(w)

\* Reconcile returns
ReconcileDone(w) ==
    /\ last[w].op # "none"
    /\ last[w].op = "Get" => last[w].err # "none"
    /\ Finish(w)

\* the informer delivers the update event of a write; the predicate decides
\* whether EnqueueRequestForObject sees it
Watch ==
    LET old == AsEventObject(cache)
        new == AsEventObject(store[PodKey])
        forward == PredicateUpdate(old, new)
    IN /\ cache.exists
       /\ store[PodKey].exists
       /\ store[PodKey] # cache
       /\ cache' = store[PodKey]
       /\ ev' = [phase |-> "verdict", old |-> old, new |-> new, forward |-> forward]
       /\ queue' = IF forward THEN queue \cup {PodKey} ELSE queue
       /\ UNCHANGED <<sysVars, codec>>

\* the object exists, the informer has seen it and its creation is queued
InitLoop ==
    /\ \E o \in LoopObjects :
        /\ store = [k \in Keys |-> o]
        /\ cache = o
    /\ queue = {PodKey}
    /\ nextId = 1
    /\ ctx = [w \in Workers |-> NoSpan]
    /\ obj = [w \in Workers |-> NoObj]
    /\ pc = [w \in Workers |-> "run"]
    /\ loc = [w \in Workers |-> NoLoc]
    /\ last = [w \in Workers |-> NoCall]
    /\ codec = Idle
    /\ ev = Idle

NextLoop ==
    \/ Watch
    \/ \E w \in VerbWorkers :
        \/ ReconcileGet(w)
        \/ ReconcileWrite(w)
        \/ ReconcileDone(w)

\* the informer and the controller's worker keep running
SpecLoop == InitLoop /\ [][NextLoop]_vars /\ WF_vars(NextLoop)

\* the two sides of the event differ in trace markers and resource version only
MarkersOnly(old, new) ==
    /\ ~OtherAnnotationsDiffer(old.ann, new.ann)
    /\ ~SpecDiffers(old, new)
    /\ ~StatusDiffers(old, new)
    /\ old.gen = new.gen

\* C16: where every forwarded update event triggers a reconcile that writes
\* the object through the interceptor and changes nothing but the trace
\* markers, the update event of such a write is suppressed by the predicate
\* and enqueues nothing.
C16_OwnWriteSuppressed ==
    [][(ev' # ev /\ ev'.phase = "verdict" /\ MarkersOnly(ev'.old, ev'.new))
        => (ev'.forward = FALSE /\ queue' = queue)]_vars

\* the chain of self-triggered reconciles ends: the work queue eventually
\* stays empty and the worker idle
C16_QueueEventuallyEmpty ==
    <>[](queue = {} /\ \A w \in Workers : last[w] = NoCall)

====
